---- MODULE Spec2Model ----
(***************************************************************************)
(* amber, src/vulkan/command.cc: the CommandBuffer state machine           *)
(* (Initialize, BeginIfNotInRecording, End, SubmitAndReset, Shutdown)      *)
(* driven by one calling thread against a Vulkan driver.  The driver is    *)
(* the environment: it answers every vk* call with one of the results the  *)
(* API allows, keeps the sets of live handles, the fence signal state and  *)
(* the in-order list of submissions still pending on the queue.            *)
(***************************************************************************)
EXTENDS Integers, Sequences, FiniteSets, TLC

\* ---------------------------------------------------------------- bounds
\* How many times the caller invokes Initialize / Shutdown.
MaxInit == 2
MaxShutdown == 2
\* Submissions the queue accepts before the driver stops taking more.
MaxPending == 2
\* Begin/End/SubmitAndReset cycles started.
MaxCycles == 2

\* ------------------------------------------------------------- constants
VK_NULL_HANDLE == 0

VK_SUCCESS == "VK_SUCCESS"
VK_TIMEOUT == "VK_TIMEOUT"
VK_ERROR == "VK_ERROR_DEVICE_LOST"

\* What a vk* call returning VkResult may answer; only vkWaitForFences can
\* answer VK_TIMEOUT.
VkCallResults == {VK_SUCCESS, VK_ERROR}
VkWaitResults == {VK_SUCCESS, VK_TIMEOUT, VK_ERROR}

\* timeout_ms values the caller passes to SubmitAndReset.
TimeoutMsValues == {1, 1000}

kInitial == "kInitial"
kRecording == "kRecording"
kExecutable == "kExecutable"
CommandBufferState == {kInitial, kRecording, kExecutable}

\* Result(): success carries the empty message.
Ok == ""
ErrAllocate == "Vulkan::Calling vkAllocateCommandBuffers Fail"
ErrCreateFence == "Vulkan::Calling vkCreateFence Fail"
ErrBeginState == "Vulkan::Begin CommandBuffer from Not Valid State"
ErrBegin == "Vulkan::Calling vkBeginCommandBuffer Fail"
ErrEndState == "Vulkan::End CommandBuffer from Not Valid State"
ErrEnd == "Vulkan::Calling vkEndCommandBuffer Fail"
ErrSubmitState == "Vulkan::Submit CommandBuffer from Not Valid State"
ErrResetFences == "Vulkan::Calling vkResetFences Fail"
ErrQueueSubmit == "Vulkan::Calling vkQueueSubmit Fail"
ErrWaitTimeout == "Vulkan::Calling vkWaitForFences Timeout"
ErrWait == "Vulkan::Calling vkWaitForFences Fail"
ErrResetCommandBuffer == "Vulkan::Calling vkResetCommandBuffer Fail"

\* The members of a CommandBuffer before Initialize.
CommandBufferDefaults ==
  [state_ |-> kInitial, command_ |-> VK_NULL_HANDLE, fence_ |-> VK_NULL_HANDLE]

VARIABLES
  state_,        \* CommandBuffer::state_
  command_,      \* CommandBuffer::command_ (VkCommandBuffer handle)
  fence_,        \* CommandBuffer::fence_ (VkFence handle)
  liveCommands,  \* driver: command buffers allocated and not freed
  liveFences,    \* driver: fences created and not destroyed
  signaled,      \* driver: fences in the signaled state
  pending,       \* driver: submissions on the queue not yet completed, oldest first
  nextHandle,    \* driver: next fresh handle value
  initCalls,     \* calls of Initialize so far
  shutdownCalls, \* calls of Shutdown so far
  cycles,        \* recordings begun so far
  last,          \* the latest call of a CommandBuffer method and what it did
  released,      \* driver: the handles passed to vkDestroyFence and
                 \* vkFreeCommandBuffers so far, in call order
  pool,          \* a CommandPool: pool_, the driver's live pools, the calls so far
  dev,           \* a Device: its members
  devLast,       \* the latest call of a Device method and what it did
  fn             \* the latest application of a helper function of device.cc

\* The CommandBuffer and the driver state behind it.
commandBufferVars ==
  <<state_, command_, fence_, liveCommands, liveFences, signaled, pending,
    nextHandle, initCalls, shutdownCalls, cycles, last, released>>

vars == <<commandBufferVars, pool, dev, devLast, fn>>

driver == <<liveCommands, liveFences, signaled, pending, nextHandle>>

NoCall ==
  [op |-> "none", pre |-> kInitial, result |-> Ok, calls |-> <<>>,
   answers |-> <<>>, busy |-> FALSE, timeout_ns |-> -1]

\* Whether a submission that references the buffer or its fence is pending.
Busy == \E i \in DOMAIN pending :
          pending[i].cmd = command_ \/ pending[i].fence = fence_

\* A method returned: the state it was called in, the Result it returned, the
\* vk* calls it made in order and what each answered (rs lists the answers the
\* driver had ready, one per call the method can make), whether the buffer was
\* busy when it was called, and the timeout it passed to vkWaitForFences.
Returned(op, result, calls, rs, ns) ==
  last' = [op |-> op, pre |-> state_, result |-> result, calls |-> calls,
           answers |-> [i \in {j \in DOMAIN calls : j \in DOMAIN rs} |-> rs[i]],
           busy |-> Busy,
           timeout_ns |-> ns]

Called(name) == \E i \in DOMAIN last.calls : last.calls[i] = name

\* What the latest method's call of vk* function `name` answered.
Answered(name, r) ==
  \E i \in DOMAIN last.answers : last.calls[i] = name /\ last.answers[i] = r

\* The members of a CommandPool before Initialize.
CommandPoolDefaults == [pool_ |-> VK_NULL_HANDLE]

\* A constructed CommandPool on which no method was called, and a driver with
\* no command pool yet.
NoPoolCall ==
  [pool_ |-> CommandPoolDefaults.pool_, live |-> {}, nextPool |-> 1,
   initCalls |-> 0, shutdownCalls |-> 0, destroyed |-> <<>>,
   op |-> "none", result |-> Ok, calls |-> <<>>, queueFamilyIndex |-> 0]

\* Device::Device(): the members as device.h initialises them; no entry point
\* of ptrs_ is resolved yet, and the feature struct holds nothing.
DeviceDefaults ==
  [instance_ |-> VK_NULL_HANDLE, callback_ |-> VK_NULL_HANDLE,
   physical_device_ |-> VK_NULL_HANDLE, queue_family_index_ |-> 0,
   device_ |-> VK_NULL_HANDLE, queue_ |-> VK_NULL_HANDLE,
   destroy_device_ |-> TRUE,
   available_physical_device_features_ |-> {},
   available_physical_device_extensions_ |-> <<>>,
   ptrs_ |-> {}]

NoDeviceCall == [op |-> "none", result |-> Ok, trace |-> <<>>]

NoApplication == [f |-> "none"]

\* Nothing but the CommandBuffer is in use.
OthersIdle ==
  /\ pool = NoPoolCall
  /\ dev = DeviceDefaults
  /\ devLast = NoDeviceCall
  /\ fn = NoApplication

Init ==
  /\ OthersIdle
  /\ released = <<>>
  /\ state_ = CommandBufferDefaults.state_
  /\ command_ = CommandBufferDefaults.command_
  /\ fence_ = CommandBufferDefaults.fence_
  /\ liveCommands = {}
  /\ liveFences = {}
  /\ signaled = {}
  /\ pending = <<>>
  /\ nextHandle = 1
  /\ initCalls = 0
  /\ shutdownCalls = 0
  /\ cycles = 0
  /\ last = NoCall

\* ------------------------------------------------------------ the methods
\* Each method as the code computes it from the state it is called in and the
\* answers of the vk* calls it makes: the state it leaves, the Result it
\* returns and the vk* calls it made, in order.

Outcome(st, result, calls) == [state |-> st, result |-> result, calls |-> calls]

Initialize(rAllocate, rCreateFence) ==
  IF rAllocate # VK_SUCCESS
    THEN [result |-> ErrAllocate, calls |-> <<"vkAllocateCommandBuffers">>]
  ELSE IF rCreateFence # VK_SUCCESS
    THEN [result |-> ErrCreateFence,
          calls |-> <<"vkAllocateCommandBuffers", "vkCreateFence">>]
  ELSE [result |-> Ok, calls |-> <<"vkAllocateCommandBuffers", "vkCreateFence">>]

\* Mutants of BeginIfNotInRecording: the kInitial check dropped; the state
\* check made only after vkBeginCommandBuffer; the kRecording early return
\* dropped.
BeginIfNotInRecording_NoInitialCheck(st, rBegin) ==
  IF st = kRecording THEN Outcome(st, Ok, <<>>)
  ELSE IF rBegin # VK_SUCCESS
    THEN Outcome(st, ErrBegin, <<"vkBeginCommandBuffer">>)
  ELSE Outcome(kRecording, Ok, <<"vkBeginCommandBuffer">>)

BeginIfNotInRecording_CheckAfterBegin(st, rBegin) ==
  IF st = kRecording THEN Outcome(st, Ok, <<>>)
  ELSE IF rBegin # VK_SUCCESS
    THEN Outcome(st, ErrBegin, <<"vkBeginCommandBuffer">>)
  ELSE IF st # kInitial
    THEN Outcome(st, ErrBeginState, <<"vkBeginCommandBuffer">>)
  ELSE Outcome(kRecording, Ok, <<"vkBeginCommandBuffer">>)

BeginIfNotInRecording_NotIdempotent(st, rBegin) ==
  IF st # kInitial THEN Outcome(st, ErrBeginState, <<>>)
  ELSE IF rBegin # VK_SUCCESS
    THEN Outcome(st, ErrBegin, <<"vkBeginCommandBuffer">>)
  ELSE Outcome(kRecording, Ok, <<"vkBeginCommandBuffer">>)

BeginIfNotInRecording(st, rBegin) ==
  IF st = kRecording THEN Outcome(st, Ok, <<>>)
  ELSE IF st # kInitial THEN Outcome(st, ErrBeginState, <<>>)
  ELSE IF rBegin # VK_SUCCESS
    THEN Outcome(st, ErrBegin, <<"vkBeginCommandBuffer">>)
  ELSE Outcome(kRecording, Ok, <<"vkBeginCommandBuffer">>)

\* Mutants of End: the state left unchanged on success; the state check dropped.
End_ForgetsState(st, rEnd) ==
  IF st # kRecording THEN Outcome(st, ErrEndState, <<>>)
  ELSE IF rEnd # VK_SUCCESS THEN Outcome(st, ErrEnd, <<"vkEndCommandBuffer">>)
  ELSE Outcome(st, Ok, <<"vkEndCommandBuffer">>)

End_NoStateCheck(st, rEnd) ==
  IF rEnd # VK_SUCCESS THEN Outcome(st, ErrEnd, <<"vkEndCommandBuffer">>)
  ELSE Outcome(kExecutable, Ok, <<"vkEndCommandBuffer">>)

End(st, rEnd) ==
  IF st # kRecording THEN Outcome(st, ErrEndState, <<>>)
  ELSE IF rEnd # VK_SUCCESS THEN Outcome(st, ErrEnd, <<"vkEndCommandBuffer">>)
  ELSE Outcome(kExecutable, Ok, <<"vkEndCommandBuffer">>)

\* static_cast<uint64_t>(timeout_ms) * 1000ULL * 1000ULL
WaitTimeoutNs(timeout_ms) == timeout_ms * 1000 * 1000

\* Mutants of SubmitAndReset: VK_TIMEOUT not told apart from other wait
\* failures; submission allowed from kRecording; state_ set to kInitial before
\* vkResetCommandBuffer is checked.
SubmitAndReset_NoTimeoutCase(st, rResetFences, rSubmit, rWait, rResetCommand) ==
  IF st # kExecutable THEN Outcome(st, ErrSubmitState, <<>>)
  ELSE IF rResetFences # VK_SUCCESS
    THEN Outcome(st, ErrResetFences, <<"vkResetFences">>)
  ELSE IF rSubmit # VK_SUCCESS
    THEN Outcome(st, ErrQueueSubmit, <<"vkResetFences", "vkQueueSubmit">>)
  ELSE IF rWait # VK_SUCCESS
    THEN Outcome(st, ErrWait,
                 <<"vkResetFences", "vkQueueSubmit", "vkWaitForFences">>)
  ELSE IF rResetCommand # VK_SUCCESS
    THEN Outcome(st, ErrResetCommandBuffer,
                 <<"vkResetFences", "vkQueueSubmit", "vkWaitForFences",
                   "vkResetCommandBuffer">>)
  ELSE Outcome(kInitial, Ok,
               <<"vkResetFences", "vkQueueSubmit", "vkWaitForFences",
                 "vkResetCommandBuffer">>)

SubmitAndReset_AllowsRecording(st, rResetFences, rSubmit, rWait, rResetCommand) ==
  IF st = kInitial THEN Outcome(st, ErrSubmitState, <<>>)
  ELSE IF rResetFences # VK_SUCCESS
    THEN Outcome(st, ErrResetFences, <<"vkResetFences">>)
  ELSE IF rSubmit # VK_SUCCESS
    THEN Outcome(st, ErrQueueSubmit, <<"vkResetFences", "vkQueueSubmit">>)
  ELSE IF rWait = VK_TIMEOUT
    THEN Outcome(st, ErrWaitTimeout,
                 <<"vkResetFences", "vkQueueSubmit", "vkWaitForFences">>)
  ELSE IF rWait # VK_SUCCESS
    THEN Outcome(st, ErrWait,
                 <<"vkResetFences", "vkQueueSubmit", "vkWaitForFences">>)
  ELSE IF rResetCommand # VK_SUCCESS
    THEN Outcome(st, ErrResetCommandBuffer,
                 <<"vkResetFences", "vkQueueSubmit", "vkWaitForFences",
                   "vkResetCommandBuffer">>)
  ELSE Outcome(kInitial, Ok,
               <<"vkResetFences", "vkQueueSubmit", "vkWaitForFences",
                 "vkResetCommandBuffer">>)

SubmitAndReset_EarlyStateUpdate(st, rResetFences, rSubmit, rWait, rResetCommand) ==
  IF st # kExecutable THEN Outcome(st, ErrSubmitState, <<>>)
  ELSE IF rResetFences # VK_SUCCESS
    THEN Outcome(st, ErrResetFences, <<"vkResetFences">>)
  ELSE IF rSubmit # VK_SUCCESS
    THEN Outcome(st, ErrQueueSubmit, <<"vkResetFences", "vkQueueSubmit">>)
  ELSE IF rWait = VK_TIMEOUT
    THEN Outcome(st, ErrWaitTimeout,
                 <<"vkResetFences", "vkQueueSubmit", "vkWaitForFences">>)
  ELSE IF rWait # VK_SUCCESS
    THEN Outcome(st, ErrWait,
                 <<"vkResetFences", "vkQueueSubmit", "vkWaitForFences">>)
  ELSE IF rResetCommand # VK_SUCCESS
    THEN Outcome(kInitial, ErrResetCommandBuffer,
                 <<"vkResetFences", "vkQueueSubmit", "vkWaitForFences",
                   "vkResetCommandBuffer">>)
  ELSE Outcome(kInitial, Ok,
               <<"vkResetFences", "vkQueueSubmit", "vkWaitForFences",
                 "vkResetCommandBuffer">>)

\* Mutant of SubmitAndReset: the answer of vkQueueSubmit is not checked.
SubmitAndReset_IgnoresSubmitFailure(st, rResetFences, rSubmit, rWait, rResetCommand) ==
  IF st # kExecutable THEN Outcome(st, ErrSubmitState, <<>>)
  ELSE IF rResetFences # VK_SUCCESS
    THEN Outcome(st, ErrResetFences, <<"vkResetFences">>)
  ELSE IF rWait = VK_TIMEOUT
    THEN Outcome(st, ErrWaitTimeout,
                 <<"vkResetFences", "vkQueueSubmit", "vkWaitForFences">>)
  ELSE IF rWait # VK_SUCCESS
    THEN Outcome(st, ErrWait,
                 <<"vkResetFences", "vkQueueSubmit", "vkWaitForFences">>)
  ELSE IF rResetCommand # VK_SUCCESS
    THEN Outcome(st, ErrResetCommandBuffer,
                 <<"vkResetFences", "vkQueueSubmit", "vkWaitForFences",
                   "vkResetCommandBuffer">>)
  ELSE Outcome(kInitial, Ok,
               <<"vkResetFences", "vkQueueSubmit", "vkWaitForFences",
                 "vkResetCommandBuffer">>)

SubmitAndReset(st, rResetFences, rSubmit, rWait, rResetCommand) ==
  IF st # kExecutable THEN Outcome(st, ErrSubmitState, <<>>)
  ELSE IF rResetFences # VK_SUCCESS
    THEN Outcome(st, ErrResetFences, <<"vkResetFences">>)
  ELSE IF rSubmit # VK_SUCCESS
    THEN Outcome(st, ErrQueueSubmit, <<"vkResetFences", "vkQueueSubmit">>)
  ELSE IF rWait = VK_TIMEOUT
    THEN Outcome(st, ErrWaitTimeout,
                 <<"vkResetFences", "vkQueueSubmit", "vkWaitForFences">>)
  ELSE IF rWait # VK_SUCCESS
    THEN Outcome(st, ErrWait,
                 <<"vkResetFences", "vkQueueSubmit", "vkWaitForFences">>)
  ELSE IF rResetCommand # VK_SUCCESS
    THEN Outcome(st, ErrResetCommandBuffer,
                 <<"vkResetFences", "vkQueueSubmit", "vkWaitForFences",
                   "vkResetCommandBuffer">>)
  ELSE Outcome(kInitial, Ok,
               <<"vkResetFences", "vkQueueSubmit", "vkWaitForFences",
                 "vkResetCommandBuffer">>)

\* Mutant of Shutdown: the command buffer is not freed.
Shutdown_KeepsCommand(fence, command) ==
  IF fence # VK_NULL_HANDLE THEN <<"vkDestroyFence">> ELSE <<>>

\* Mutant of Shutdown: the command buffer is freed only along with a fence.
Shutdown_NeedsFence(fence, command) ==
  IF fence # VK_NULL_HANDLE
    THEN <<"vkDestroyFence">>
           \o (IF command # VK_NULL_HANDLE THEN <<"vkFreeCommandBuffers">> ELSE <<>>)
  ELSE <<>>

\* The destroy/free calls Shutdown makes for the handles it holds.
Shutdown(fence, command) ==
  (IF fence # VK_NULL_HANDLE THEN <<"vkDestroyFence">> ELSE <<>>)
  \o (IF command # VK_NULL_HANDLE THEN <<"vkFreeCommandBuffers">> ELSE <<>>)

\* ------------------------------------------------------------- the driver
Has(calls, name) == \E i \in DOMAIN calls : calls[i] = name

\* Position of the oldest pending submission that signals fence f (0: none).
FirstWith(q, f) ==
  IF \E i \in DOMAIN q : q[i].fence = f
    THEN CHOOSE i \in DOMAIN q :
           /\ q[i].fence = f
           /\ \A j \in 1..(i - 1) : q[j].fence # f
    ELSE 0

\* The queue after its first k submissions completed.
Drop(q, k) == SubSeq(q, k + 1, Len(q))

\* The fences those k submissions signal.
SignaledBy(q, k, live) == {q[i].fence : i \in 1..k} \cap live

\* ------------------------------------------------------------ the actions
CallInitialize ==
  /\ initCalls < MaxInit
  /\ \E rAllocate \in VkCallResults, rCreateFence \in VkCallResults :
       LET o == Initialize(rAllocate, rCreateFence)
           allocated == Has(o.calls, "vkAllocateCommandBuffers")
                          /\ rAllocate = VK_SUCCESS
           created == Has(o.calls, "vkCreateFence") /\ rCreateFence = VK_SUCCESS
           newCommand == nextHandle
           newFence == IF allocated THEN nextHandle + 1 ELSE nextHandle
       IN /\ command_' = IF allocated THEN newCommand
                         ELSE IF Has(o.calls, "vkAllocateCommandBuffers")
                           THEN VK_NULL_HANDLE
                         ELSE command_
          /\ fence_' = IF created THEN newFence ELSE fence_
          /\ liveCommands' = IF allocated THEN liveCommands \cup {newCommand}
                             ELSE liveCommands
          /\ liveFences' = IF created THEN liveFences \cup {newFence}
                           ELSE liveFences
          /\ nextHandle' = nextHandle + (IF allocated THEN 1 ELSE 0)
                                      + (IF created THEN 1 ELSE 0)
          /\ Returned("Initialize", o.result, o.calls,
                      <<rAllocate, rCreateFence>>, -1)
  /\ initCalls' = initCalls + 1
  /\ UNCHANGED <<state_, signaled, pending, shutdownCalls, cycles, released>>

CallBeginIfNotInRecording ==
  \E rBegin \in VkCallResults :
    LET o == BeginIfNotInRecording(state_, rBegin)
    IN /\ o.calls # <<>> => command_ \in liveCommands
       /\ state_ = kInitial => cycles < MaxCycles
       /\ state_' = o.state
       /\ cycles' = IF state_ = kInitial /\ o.state = kRecording
                      THEN cycles + 1 ELSE cycles
       /\ Returned("BeginIfNotInRecording", o.result, o.calls, <<rBegin>>, -1)
       /\ UNCHANGED <<command_, fence_, driver, initCalls, shutdownCalls,
                      released>>

CallEnd ==
  \E rEnd \in VkCallResults :
    LET o == End(state_, rEnd)
    IN /\ o.calls # <<>> => command_ \in liveCommands
       /\ state_' = o.state
       /\ Returned("End", o.result, o.calls, <<rEnd>>, -1)
       /\ UNCHANGED <<command_, fence_, driver, initCalls, shutdownCalls, cycles,
                      released>>

CallSubmitAndReset ==
  \E timeout_ms \in TimeoutMsValues,
     rResetFences \in VkCallResults, rSubmit \in VkCallResults,
     rWait \in VkWaitResults, rResetCommand \in VkCallResults :
    LET o == SubmitAndReset(state_, rResetFences, rSubmit, rWait, rResetCommand)
        reset == Has(o.calls, "vkResetFences") /\ rResetFences = VK_SUCCESS
        submitted == Has(o.calls, "vkQueueSubmit") /\ rSubmit = VK_SUCCESS
        waited == Has(o.calls, "vkWaitForFences")
        signaled1 == IF reset THEN signaled \ {fence_} ELSE signaled
        pending1 == IF submitted
                      THEN Append(pending, [cmd |-> command_, fence |-> fence_])
                      ELSE pending
        \* the wait ends in VK_SUCCESS when the fence signals: the queue
        \* completes, in order, up to the first submission that signals it
        k == IF waited /\ rWait = VK_SUCCESS /\ fence_ \notin signaled1
               THEN FirstWith(pending1, fence_) ELSE 0
    IN /\ o.calls # <<>> => (command_ \in liveCommands /\ fence_ \in liveFences)
       \* a call that is not made has no answer to vary
       /\ ~Has(o.calls, "vkResetFences") => rResetFences = VK_SUCCESS
       /\ ~Has(o.calls, "vkQueueSubmit") => rSubmit = VK_SUCCESS
       /\ ~waited => (rWait = VK_SUCCESS /\ timeout_ms = 1)
       /\ ~Has(o.calls, "vkResetCommandBuffer") => rResetCommand = VK_SUCCESS
       \* a full queue refuses the submission
       /\ submitted => Len(pending) < MaxPending
       \* the wait cannot report a fence signaled that nothing signals
       /\ (waited /\ rWait = VK_SUCCESS) =>
            (fence_ \in signaled1 \/ FirstWith(pending1, fence_) > 0)
       /\ state_' = o.state
       /\ signaled' = signaled1 \cup SignaledBy(pending1, k, liveFences)
       /\ pending' = Drop(pending1, k)
       /\ Returned("SubmitAndReset", o.result, o.calls,
                   <<rResetFences, rSubmit, rWait, rResetCommand>>,
                   IF waited THEN WaitTimeoutNs(timeout_ms) ELSE -1)
       /\ UNCHANGED <<command_, fence_, liveCommands, liveFences, nextHandle,
                      initCalls, shutdownCalls, cycles, released>>

CallShutdown ==
  /\ shutdownCalls < MaxShutdown
  /\ LET calls == Shutdown(fence_, command_)
         destroyed == IF Has(calls, "vkDestroyFence") THEN {fence_} ELSE {}
         freed == IF Has(calls, "vkFreeCommandBuffers") THEN {command_} ELSE {}
     IN /\ liveFences' = liveFences \ destroyed
        /\ signaled' = signaled \ destroyed
        /\ liveCommands' = liveCommands \ freed
        /\ released' = released
              \o (IF Has(calls, "vkDestroyFence")
                    THEN <<[kind |-> "fence", handle |-> fence_]>> ELSE <<>>)
              \o (IF Has(calls, "vkFreeCommandBuffers")
                    THEN <<[kind |-> "command", handle |-> command_]>> ELSE <<>>)
        /\ Returned("Shutdown", Ok, calls, <<>>, -1)
  /\ shutdownCalls' = shutdownCalls + 1
  /\ UNCHANGED <<state_, command_, fence_, pending, nextHandle, initCalls, cycles>>

\* The queue finishes its oldest submission and signals that submission's fence.
GpuComplete ==
  /\ pending # <<>>
  /\ pending' = Drop(pending, 1)
  /\ signaled' = signaled \cup SignaledBy(pending, 1, liveFences)
  /\ UNCHANGED <<state_, command_, fence_, liveCommands, liveFences, nextHandle,
                 initCalls, shutdownCalls, cycles, last, released>>

Next ==
  \/ CallInitialize /\ UNCHANGED <<pool, dev, devLast, fn>>
  \/ CallBeginIfNotInRecording /\ UNCHANGED <<pool, dev, devLast, fn>>
  \/ CallEnd /\ UNCHANGED <<pool, dev, devLast, fn>>
  \/ CallSubmitAndReset /\ UNCHANGED <<pool, dev, devLast, fn>>
  \/ CallShutdown /\ UNCHANGED <<pool, dev, devLast, fn>>
  \/ GpuComplete /\ UNCHANGED <<pool, dev, devLast, fn>>

Spec == Init /\ [][Next]_vars

\* ---------------------------------------------------------- CommandPool
ErrCreateCommandPool == "Vulkan::Calling vkCreateCommandPool Fail"

\* queue_family_index values the caller passes to CommandPool::Initialize.
QueueFamilyIndices == {0, 1, 2}

\* CommandPool::Initialize from the answer of vkCreateCommandPool.
CommandPoolInitialize(rCreate) ==
  IF rCreate # VK_SUCCESS
    THEN [result |-> ErrCreateCommandPool, calls |-> <<"vkCreateCommandPool">>]
  ELSE [result |-> Ok, calls |-> <<"vkCreateCommandPool">>]

\* The destroy call CommandPool::Shutdown makes for the handle it holds.
CommandPoolShutdown(p) ==
  IF p # VK_NULL_HANDLE THEN <<"vkDestroyCommandPool">> ELSE <<>>

CallCommandPoolInitialize ==
  /\ pool.initCalls < MaxInit
  /\ \E queue_family_index \in QueueFamilyIndices, rCreate \in VkCallResults :
       LET o == CommandPoolInitialize(rCreate)
           created == Has(o.calls, "vkCreateCommandPool") /\ rCreate = VK_SUCCESS
       IN pool' = [pool EXCEPT
                     !.pool_ = IF created THEN pool.nextPool ELSE @,
                     !.live = IF created THEN @ \cup {pool.nextPool} ELSE @,
                     !.nextPool = IF created THEN @ + 1 ELSE @,
                     !.initCalls = @ + 1,
                     !.op = "Initialize",
                     !.result = o.result,
                     !.calls = o.calls,
                     !.queueFamilyIndex = queue_family_index]
  /\ UNCHANGED <<commandBufferVars, dev, devLast, fn>>

CallCommandPoolShutdown ==
  /\ pool.shutdownCalls < MaxShutdown
  /\ LET calls == CommandPoolShutdown(pool.pool_)
         destroys == Has(calls, "vkDestroyCommandPool")
     IN pool' = [pool EXCEPT
                   !.live = IF destroys THEN @ \ {pool.pool_} ELSE @,
                   !.destroyed = IF destroys THEN Append(@, pool.pool_) ELSE @,
                   !.shutdownCalls = @ + 1,
                   !.op = "Shutdown",
                   !.result = Ok,
                   !.calls = calls]
  /\ UNCHANGED <<commandBufferVars, dev, devLast, fn>>

\* ------------------------------------------- helper functions of device.cc
\* A VkPhysicalDeviceFeatures value is the set of its members that are not
\* VK_FALSE; a Feature is its enumerator name.

\* switch of RequestedFeatures: the member each case sets to VK_TRUE.
RequestedFeaturesSwitch ==
  [
    kRobustBufferAccess |-> {"robustBufferAccess"},
    kFullDrawIndexUint32 |-> {"fullDrawIndexUint32"},
    kImageCubeArray |-> {"imageCubeArray"},
    kIndependentBlend |-> {"independentBlend"},
    kGeometryShader |-> {"geometryShader"},
    kTessellationShader |-> {"tessellationShader"},
    kSampleRateShading |-> {"sampleRateShading"},
    kDualSrcBlend |-> {"dualSrcBlend"},
    kLogicOp |-> {"logicOp"},
    kMultiDrawIndirect |-> {"multiDrawIndirect"},
    kDrawIndirectFirstInstance |-> {"drawIndirectFirstInstance"},
    kDepthClamp |-> {"depthClamp"},
    kDepthBiasClamp |-> {"depthBiasClamp"},
    kFillModeNonSolid |-> {"fillModeNonSolid"},
    kDepthBounds |-> {"depthBounds"},
    kWideLines |-> {"wideLines"},
    kLargePoints |-> {"largePoints"},
    kAlphaToOne |-> {"alphaToOne"},
    kMultiViewport |-> {"multiViewport"},
    kSamplerAnisotropy |-> {"samplerAnisotropy"},
    kTextureCompressionETC2 |-> {"textureCompressionETC2"},
    kTextureCompressionASTC_LDR |-> {"textureCompressionASTC_LDR"},
    kTextureCompressionBC |-> {"textureCompressionBC"},
    kOcclusionQueryPrecise |-> {"occlusionQueryPrecise"},
    kPipelineStatisticsQuery |-> {"pipelineStatisticsQuery"},
    kVertexPipelineStoresAndAtomics |-> {"vertexPipelineStoresAndAtomics"},
    kFragmentStoresAndAtomics |-> {"fragmentStoresAndAtomics"},
    kShaderTessellationAndGeometryPointSize |-> {"shaderTessellationAndGeometryPointSize"},
    kShaderImageGatherExtended |-> {"shaderImageGatherExtended"},
    kShaderStorageImageExtendedFormats |-> {"shaderStorageImageExtendedFormats"},
    kShaderStorageImageMultisample |-> {"shaderStorageImageMultisample"},
    kShaderStorageImageReadWithoutFormat |-> {"shaderStorageImageReadWithoutFormat"},
    kShaderStorageImageWriteWithoutFormat |-> {"shaderStorageImageWriteWithoutFormat"},
    kShaderUniformBufferArrayDynamicIndexing |-> {"shaderUniformBufferArrayDynamicIndexing"},
    kShaderSampledImageArrayDynamicIndexing |-> {"shaderSampledImageArrayDynamicIndexing"},
    kShaderStorageBufferArrayDynamicIndexing |-> {"shaderStorageBufferArrayDynamicIndexing"},
    kShaderStorageImageArrayDynamicIndexing |-> {"shaderStorageImageArrayDynamicIndexing"},
    kShaderClipDistance |-> {"shaderClipDistance"},
    kShaderCullDistance |-> {"shaderCullDistance"},
    kShaderFloat64 |-> {"shaderFloat64"},
    kShaderInt64 |-> {"shaderInt64"},
    kShaderInt16 |-> {"shaderInt16"},
    kShaderResourceResidency |-> {"shaderResourceResidency"},
    kShaderResourceMinLod |-> {"shaderResourceMinLod"},
    kSparseBinding |-> {"sparseBinding"},
    kSparseResidencyBuffer |-> {"sparseResidencyBuffer"},
    kSparseResidencyImage2D |-> {"sparseResidencyImage2D"},
    kSparseResidencyImage3D |-> {"sparseResidencyImage3D"},
    kSparseResidency2Samples |-> {"sparseResidency2Samples"},
    kSparseResidency4Samples |-> {"sparseResidency4Samples"},
    kSparseResidency8Samples |-> {"sparseResidency8Samples"},
    kSparseResidency16Samples |-> {"sparseResidency16Samples"},
    kSparseResidencyAliased |-> {"sparseResidencyAliased"},
    kVariableMultisampleRate |-> {"variableMultisampleRate"},
    kInheritedQueries |-> {"inheritedQueries"},
    kFramebuffer |-> {},
    kDepthStencil |-> {},
    kFenceTimeout |-> {},
    kUnknown |-> {}
  ]

\* switch of AreAllRequiredFeaturesSupported: the member each case compares
\* with VK_FALSE.
SupportedFeaturesSwitch ==
  [
    kRobustBufferAccess |-> {"robustBufferAccess"},
    kFullDrawIndexUint32 |-> {"fullDrawIndexUint32"},
    kImageCubeArray |-> {"imageCubeArray"},
    kIndependentBlend |-> {"independentBlend"},
    kGeometryShader |-> {"geometryShader"},
    kTessellationShader |-> {"tessellationShader"},
    kSampleRateShading |-> {"sampleRateShading"},
    kDualSrcBlend |-> {"dualSrcBlend"},
    kLogicOp |-> {"logicOp"},
    kMultiDrawIndirect |-> {"multiDrawIndirect"},
    kDrawIndirectFirstInstance |-> {"drawIndirectFirstInstance"},
    kDepthClamp |-> {"depthClamp"},
    kDepthBiasClamp |-> {"depthBiasClamp"},
    kFillModeNonSolid |-> {"fillModeNonSolid"},
    kDepthBounds |-> {"depthBounds"},
    kWideLines |-> {"wideLines"},
    kLargePoints |-> {"largePoints"},
    kAlphaToOne |-> {"alphaToOne"},
    kMultiViewport |-> {"multiViewport"},
    kSamplerAnisotropy |-> {"samplerAnisotropy"},
    kTextureCompressionETC2 |-> {"textureCompressionETC2"},
    kTextureCompressionASTC_LDR |-> {"textureCompressionASTC_LDR"},
    kTextureCompressionBC |-> {"textureCompressionBC"},
    kOcclusionQueryPrecise |-> {"occlusionQueryPrecise"},
    kPipelineStatisticsQuery |-> {"pipelineStatisticsQuery"},
    kVertexPipelineStoresAndAtomics |-> {"vertexPipelineStoresAndAtomics"},
    kFragmentStoresAndAtomics |-> {"fragmentStoresAndAtomics"},
    kShaderTessellationAndGeometryPointSize |-> {"shaderTessellationAndGeometryPointSize"},
    kShaderImageGatherExtended |-> {"shaderImageGatherExtended"},
    kShaderStorageImageExtendedFormats |-> {"shaderStorageImageExtendedFormats"},
    kShaderStorageImageMultisample |-> {"shaderStorageImageMultisample"},
    kShaderStorageImageReadWithoutFormat |-> {"shaderStorageImageReadWithoutFormat"},
    kShaderStorageImageWriteWithoutFormat |-> {"shaderStorageImageWriteWithoutFormat"},
    kShaderUniformBufferArrayDynamicIndexing |-> {"shaderUniformBufferArrayDynamicIndexing"},
    kShaderSampledImageArrayDynamicIndexing |-> {"shaderSampledImageArrayDynamicIndexing"},
    kShaderStorageBufferArrayDynamicIndexing |-> {"shaderStorageBufferArrayDynamicIndexing"},
    kShaderStorageImageArrayDynamicIndexing |-> {"shaderStorageImageArrayDynamicIndexing"},
    kShaderClipDistance |-> {"shaderClipDistance"},
    kShaderCullDistance |-> {"shaderCullDistance"},
    kShaderFloat64 |-> {"shaderFloat64"},
    kShaderInt64 |-> {"shaderInt64"},
    kShaderInt16 |-> {"shaderInt16"},
    kShaderResourceResidency |-> {"shaderResourceResidency"},
    kShaderResourceMinLod |-> {"shaderResourceMinLod"},
    kSparseBinding |-> {"sparseBinding"},
    kSparseResidencyBuffer |-> {"sparseResidencyBuffer"},
    kSparseResidencyImage2D |-> {"sparseResidencyImage2D"},
    kSparseResidencyImage3D |-> {"sparseResidencyImage3D"},
    kSparseResidency2Samples |-> {"sparseResidency2Samples"},
    kSparseResidency4Samples |-> {"sparseResidency4Samples"},
    kSparseResidency8Samples |-> {"sparseResidency8Samples"},
    kSparseResidency16Samples |-> {"sparseResidency16Samples"},
    kSparseResidencyAliased |-> {"sparseResidencyAliased"},
    kVariableMultisampleRate |-> {"variableMultisampleRate"},
    kInheritedQueries |-> {"inheritedQueries"},
    kFramebuffer |-> {},
    kDepthStencil |-> {},
    kFenceTimeout |-> {},
    kUnknown |-> {}
  ]

Features == DOMAIN SupportedFeaturesSwitch

PhysicalDeviceFeatureMembers == UNION {SupportedFeaturesSwitch[f] : f \in Features}

Range(s) == {s[i] : i \in DOMAIN s}

RECURSIVE RequestedFeaturesFrom(_, _, _)
RequestedFeaturesFrom(required_features, i, requested_features) ==
  IF i > Len(required_features) THEN requested_features
  ELSE RequestedFeaturesFrom(required_features, i + 1,
         requested_features \cup RequestedFeaturesSwitch[required_features[i]])

RequestedFeatures_LastOnly(required_features) ==
  IF required_features = <<>> THEN {}
  ELSE RequestedFeaturesSwitch[required_features[Len(required_features)]]

RequestedFeatures(required_features) ==
  RequestedFeaturesFrom(required_features, 1, {})

RECURSIVE SupportedFrom(_, _, _)
SupportedFrom(available_features, required_features, i) ==
  IF i > Len(required_features) THEN TRUE
  ELSE IF ~(SupportedFeaturesSwitch[required_features[i]] \subseteq available_features)
    THEN FALSE
  ELSE SupportedFrom(available_features, required_features, i + 1)

AreAllRequiredFeaturesSupported_FirstOnly(available_features, required_features) ==
  IF required_features = <<>> THEN TRUE
  ELSE SupportedFeaturesSwitch[required_features[1]] \subseteq available_features

AreAllRequiredFeaturesSupported(available_features, required_features) ==
  IF required_features = <<>> THEN TRUE
  ELSE SupportedFrom(available_features, required_features, 1)

RECURSIVE EraseEach(_, _, _)
EraseEach(required_extension_set, available_extensions, i) ==
  IF i > Len(available_extensions) THEN required_extension_set
  ELSE EraseEach(required_extension_set \ {available_extensions[i]},
                 available_extensions, i + 1)

AreAllExtensionsSupported_CountsOnly(available_extensions, required_extensions) ==
  IF required_extensions = <<>> THEN TRUE
  ELSE Cardinality(Range(required_extensions)) <= Cardinality(Range(available_extensions))

AreAllExtensionsSupported(available_extensions, required_extensions) ==
  IF required_extensions = <<>> THEN TRUE
  ELSE EraseEach(Range(required_extensions), available_extensions, 1) = {}

\* Longest required_features list and longest extension list applied.
MaxRequired == 2
MaxExtensions == 2

SeqsUpTo(S, n) == UNION {[1..k -> S] : k \in 0..n}

\* Features and members the longer lists are built from: two with a member,
\* one without.
TestFeatures == {"kRobustBufferAccess", "kGeometryShader", "kFramebuffer"}
TestMembers == {"robustBufferAccess", "geometryShader", "wideLines"}
ExtensionNames == {"VK_KHR_a", "VK_KHR_b", "VK_KHR_c"}

RequiredFeatureLists ==
  SeqsUpTo(TestFeatures, MaxRequired) \cup {<<f>> : f \in Features}

AvailableFeatureSets ==
  (SUBSET TestMembers)
    \cup {{m} : m \in PhysicalDeviceFeatureMembers}
    \cup {PhysicalDeviceFeatureMembers \ {m} : m \in PhysicalDeviceFeatureMembers}

CommandBufferUnused ==
  /\ released = <<>>
  /\ state_ = CommandBufferDefaults.state_
  /\ command_ = CommandBufferDefaults.command_
  /\ fence_ = CommandBufferDefaults.fence_
  /\ liveCommands = {}
  /\ liveFences = {}
  /\ signaled = {}
  /\ pending = <<>>
  /\ nextHandle = 1
  /\ initCalls = 0
  /\ shutdownCalls = 0
  /\ cycles = 0
  /\ last = NoCall

HelperInit ==
  /\ CommandBufferUnused
  /\ pool = NoPoolCall
  /\ dev = DeviceDefaults
  /\ devLast = NoDeviceCall
  /\ \/ \E available \in AvailableFeatureSets, required \in RequiredFeatureLists :
          fn = [f |-> "AreAllRequiredFeaturesSupported", applied |-> FALSE,
                available |-> available, required |-> required, result |-> FALSE]
     \/ \E available, required \in SeqsUpTo(ExtensionNames, MaxExtensions) :
          fn = [f |-> "AreAllExtensionsSupported", applied |-> FALSE,
                available |-> available, required |-> required, result |-> FALSE]

ApplyAreAllRequiredFeaturesSupported ==
  /\ fn.f = "AreAllRequiredFeaturesSupported"
  /\ ~fn.applied
  /\ fn' = [fn EXCEPT !.applied = TRUE,
                      !.result = AreAllRequiredFeaturesSupported(fn.available, fn.required)]
  /\ UNCHANGED <<commandBufferVars, pool, dev, devLast>>

ApplyAreAllExtensionsSupported ==
  /\ fn.f = "AreAllExtensionsSupported"
  /\ ~fn.applied
  /\ fn' = [fn EXCEPT !.applied = TRUE,
                      !.result = AreAllExtensionsSupported(fn.available, fn.required)]
  /\ UNCHANGED <<commandBufferVars, pool, dev, devLast>>

HelperNext ==
  \/ ApplyAreAllRequiredFeaturesSupported
  \/ ApplyAreAllExtensionsSupported

SpecHelpers == HelperInit /\ [][HelperNext]_vars

PoolInit ==
  /\ CommandBufferUnused
  /\ pool = NoPoolCall
  /\ dev = DeviceDefaults
  /\ devLast = NoDeviceCall
  /\ fn = NoApplication

PoolNext ==
  \/ CallCommandPoolInitialize
  \/ CallCommandPoolShutdown

SpecPool == PoolInit /\ [][PoolNext]_vars

\* ---------------------------------------------------------------- Device
ErrUnableToLoad == "Vulkan: Unable to load #func pointer"
ErrEnumerateLayers == "Vulkan: vkEnumerateInstanceLayerProperties fail"
ErrMissingLayers == "Vulkan: missing validation layers:"
ErrValidationExtensions == "Vulkan: extensions of validation layers are not supported"
ErrCreateInstance == "Vulkan::Calling vkCreateInstance Fail"
ErrCreateCallback == "Vulkan: vkCreateDebugReportCallbackEXT fail"
ErrEnumeratePhysicalDevices == "Vulkan::Calling vkEnumeratePhysicalDevices Fail"
ErrNoPhysicalDevice == "Vulkan::No physical device supports Vulkan"
ErrCreateDevice == "Vulkan::Calling vkCreateDevice Fail"
ErrGetDeviceQueue == "Vulkan::Calling vkGetDeviceQueue Fail"
ErrFeaturesNotSupported ==
  "Vulkan: Device::Initialize given physical device does not support required features"
ErrExtensionsNotSupported ==
  "Vulkan: Device::Initialize given physical device does not support required extensions"

kRequiredValidationLayers == <<"VK_LAYER_LUNARG_standard_validation">>
kExtensionForValidationLayer == "VK_EXT_debug_report"

VK_QUEUE_GRAPHICS_BIT == "VK_QUEUE_GRAPHICS_BIT"
VK_QUEUE_COMPUTE_BIT == "VK_QUEUE_COMPUTE_BIT"
VK_QUEUE_TRANSFER_BIT == "VK_QUEUE_TRANSFER_BIT"

\* Entry points of the dispatch table: those resolved with a null instance,
\* then those resolved with instance_.
GlobalFuncs ==
  <<"vkCreateInstance",
    "vkEnumerateInstanceExtensionProperties",
    "vkEnumerateInstanceLayerProperties">>

InstanceFuncs ==
  <<"vkAllocateCommandBuffers",
    "vkBeginCommandBuffer",
    "vkCreateCommandPool",
    "vkCreateDebugReportCallbackEXT",
    "vkCreateDevice",
    "vkCreateFence",
    "vkDestroyCommandPool",
    "vkDestroyDebugReportCallbackEXT",
    "vkDestroyDevice",
    "vkDestroyFence",
    "vkDestroyInstance",
    "vkEndCommandBuffer",
    "vkEnumerateDeviceExtensionProperties",
    "vkEnumeratePhysicalDevices",
    "vkFreeCommandBuffers",
    "vkGetDeviceQueue",
    "vkGetPhysicalDeviceFeatures",
    "vkGetPhysicalDeviceMemoryProperties",
    "vkGetPhysicalDeviceProperties",
    "vkGetPhysicalDeviceQueueFamilyProperties",
    "vkQueueSubmit",
    "vkResetCommandBuffer",
    "vkResetFences",
    "vkWaitForFences">>

\* Handles the driver hands out, and the handle of the i-th enumerated
\* physical device.
DriverHandles == [instance |-> 1, callback |-> 2, device |-> 3, queue |-> 4]
PhysicalDeviceHandle(i) == 10 + i

\* Handles a host supplies to the adopting constructor.
HostHandles ==
  [instance |-> 21, physical_device |-> 22, device |-> 23, queue |-> 24,
   queue_family_index |-> 1]

\* One step of a method in progress: something called with its arguments, or
\* a member written.
Event(call, arg) == [call |-> call, arg |-> arg]

\* A method in progress: the Device so far, the Result so far, what was done.
Run(d) == [d |-> d, result |-> Ok, trace |-> <<>>]

Min(S) == CHOOSE x \in S : \A y \in S : x <= y
Max(S) == CHOOSE x \in S : \A y \in S : x >= y

\* The AMBER_VK_*FUNC expansion over one list: resolve in order, return at
\* the first name getInstanceProcAddr answers null for.
Load(run, funcs, instance, unresolved) ==
  LET bad == {j \in DOMAIN funcs : funcs[j] \in unresolved}
      k == IF bad = {} THEN Len(funcs) ELSE Min(bad)
      assigned == {funcs[j] : j \in 1..k}
  IN [d |-> [run.d EXCEPT !.ptrs_ = (@ \ assigned) \cup (assigned \ unresolved)],
      result |-> IF bad = {} THEN Ok ELSE ErrUnableToLoad,
      trace |-> run.trace \o
                  [j \in 1..k |-> Event("getInstanceProcAddr",
                                        [instance |-> instance, name |-> funcs[j]])]]

LoadVulkanGlobalPointers(run, unresolved) ==
  Load(run, GlobalFuncs, VK_NULL_HANDLE, unresolved)

LoadVulkanPointers_IgnoresMissing(run, unresolved) ==
  [Load(run, InstanceFuncs, run.d.instance_, unresolved) EXCEPT !.result = Ok]

LoadVulkanPointers(run, unresolved) ==
  Load(run, InstanceFuncs, run.d.instance_, unresolved)

\* An enumeration made with the count query and then the data query: rs are
\* the VkResults the platform gives to the two calls.
Enumerated(call, arg, rs) ==
  IF rs[1] # VK_SUCCESS THEN <<Event(call, arg)>>
  ELSE <<Event(call, arg), Event(call, arg)>>

EnumerationFailed(rs) == rs[1] # VK_SUCCESS \/ rs[2] # VK_SUCCESS

\* kRequiredValidationLayers of a build with __ANDROID__ defined.
kRequiredValidationLayersAndroid ==
  <<"VK_LAYER_GOOGLE_threading",
    "VK_LAYER_LUNARG_parameter_validation",
    "VK_LAYER_LUNARG_object_tracker",
    "VK_LAYER_LUNARG_core_validation",
    "VK_LAYER_GOOGLE_unique_objects">>

\* The layer names in the order a std::set<std::string> iterates them.
LayerNamesAscending ==
  <<"VK_LAYER_GOOGLE_threading",
    "VK_LAYER_GOOGLE_unique_objects",
    "VK_LAYER_LUNARG_core_validation",
    "VK_LAYER_LUNARG_object_tracker",
    "VK_LAYER_LUNARG_parameter_validation",
    "VK_LAYER_LUNARG_standard_validation">>

InSetOrder(S) == SelectSeq(LayerNamesAscending, LAMBDA name : name \in S)

\* The check of AreAllValidationLayersSupported for a list of required
\* layers: the Result message up to the layer names, and the names appended
\* to it (each followed by ",\n\t\t").
ValidationLayersCheck_FirstMissingOnly(required_layers, rs, available_layers) ==
  LET required_layer_set == Range(required_layers) \ available_layers
  IN IF EnumerationFailed(rs)
       THEN [result |-> ErrEnumerateLayers, missing_layers |-> <<>>]
     ELSE IF required_layer_set = {}
       THEN [result |-> Ok, missing_layers |-> <<>>]
     ELSE [result |-> ErrMissingLayers,
           missing_layers |-> SubSeq(InSetOrder(required_layer_set), 1, 1)]

ValidationLayersCheck(required_layers, rs, available_layers) ==
  LET required_layer_set == Range(required_layers) \ available_layers
  IN IF EnumerationFailed(rs)
       THEN [result |-> ErrEnumerateLayers, missing_layers |-> <<>>]
     ELSE IF required_layer_set = {}
       THEN [result |-> Ok, missing_layers |-> <<>>]
     ELSE [result |-> ErrMissingLayers,
           missing_layers |-> InSetOrder(required_layer_set)]

AreAllValidationLayersSupported(run, platform) ==
  LET rs == platform.rEnumerateInstanceLayerProperties
      events == Enumerated("vkEnumerateInstanceLayerProperties", <<>>, rs)
      check == ValidationLayersCheck(kRequiredValidationLayers, rs, platform.layers)
  IN [run EXCEPT !.trace = @ \o events, !.result = check.result]

\* Loop of AreAllValidationExtensionsSupported from layer i on.
RECURSIVE ValidationExtensionsFrom(_, _)
ValidationExtensionsFrom(platform, i) ==
  IF i > Len(kRequiredValidationLayers) THEN [ok |-> FALSE, trace |-> <<>>]
  ELSE
    LET layer == kRequiredValidationLayers[i]
        rs == platform.rEnumerateInstanceExtensionProperties
        events == Enumerated("vkEnumerateInstanceExtensionProperties", layer, rs)
    IN IF EnumerationFailed(rs) THEN [ok |-> FALSE, trace |-> events]
       ELSE IF kExtensionForValidationLayer \in platform.layerExtensions
         THEN [ok |-> TRUE, trace |-> events]
       ELSE LET rest == ValidationExtensionsFrom(platform, i + 1)
            IN [ok |-> rest.ok, trace |-> events \o rest.trace]

AreAllValidationExtensionsSupported(platform) ==
  ValidationExtensionsFrom(platform, 1)

CreateInstance(run, platform) ==
  LET r1 == AreAllValidationLayersSupported(run, platform)
      e == AreAllValidationExtensionsSupported(platform)
      r2 == [r1 EXCEPT !.trace = @ \o e.trace]
      created == platform.rCreateInstance = VK_SUCCESS
  IN IF r1.result # Ok THEN r1
     ELSE IF ~e.ok THEN [r2 EXCEPT !.result = ErrValidationExtensions]
     ELSE [d |-> [r2.d EXCEPT !.instance_ =
                    IF created THEN DriverHandles.instance ELSE @],
           result |-> IF created THEN Ok ELSE ErrCreateInstance,
           trace |-> Append(r2.trace,
                       Event("vkCreateInstance",
                             [ppEnabledLayerNames |-> kRequiredValidationLayers,
                              ppEnabledExtensionNames |-> <<kExtensionForValidationLayer>>]))]

CreateDebugReportCallback(run, platform) ==
  LET created == platform.rCreateDebugReportCallback = VK_SUCCESS
  IN [d |-> [run.d EXCEPT !.callback_ =
               IF created THEN DriverHandles.callback ELSE @],
      result |-> IF created THEN Ok ELSE ErrCreateCallback,
      trace |-> Append(run.trace,
                  Event("vkCreateDebugReportCallbackEXT",
                        [instance |-> run.d.instance_]))]

GraphicsOrCompute(queueFlags) ==
  queueFlags \cap {VK_QUEUE_GRAPHICS_BIT, VK_QUEUE_COMPUTE_BIT} # {}

\* properties[i] is the queueFlags of family i - 1.
ChooseQueueFamilyIndex_LastMatch(run, physical_device, properties) ==
  LET events == <<Event("vkGetPhysicalDeviceQueueFamilyProperties", physical_device),
                  Event("vkGetPhysicalDeviceQueueFamilyProperties", physical_device)>>
      matching == {i \in DOMAIN properties : GraphicsOrCompute(properties[i])}
  IN IF matching = {}
       THEN [run |-> [run EXCEPT !.trace = @ \o events], ok |-> FALSE]
     ELSE [run |-> [run EXCEPT
                      !.d.queue_family_index_ = Max(matching) - 1,
                      !.trace = @ \o events \o
                        <<Event("queue_family_index_",
                                [physical_device |-> physical_device,
                                 value |-> Max(matching) - 1])>>],
           ok |-> TRUE]

ChooseQueueFamilyIndex(run, physical_device, properties) ==
  LET events == <<Event("vkGetPhysicalDeviceQueueFamilyProperties", physical_device),
                  Event("vkGetPhysicalDeviceQueueFamilyProperties", physical_device)>>
      matching == {i \in DOMAIN properties : GraphicsOrCompute(properties[i])}
  IN IF matching = {}
       THEN [run |-> [run EXCEPT !.trace = @ \o events], ok |-> FALSE]
     ELSE [run |-> [run EXCEPT
                      !.d.queue_family_index_ = Min(matching) - 1,
                      !.trace = @ \o events \o
                        <<Event("queue_family_index_",
                                [physical_device |-> physical_device,
                                 value |-> Min(matching) - 1])>>],
           ok |-> TRUE]

\* GetAvailableExtensions of a candidate: an empty list when either
\* enumeration call fails, or when the count is zero.
GetAvailableExtensions(physical_device, candidate) ==
  LET rs == candidate.rEnumerateDeviceExtensionProperties
      call == "vkEnumerateDeviceExtensionProperties"
  IN IF rs[1] # VK_SUCCESS
       THEN [list |-> <<>>, trace |-> <<Event(call, physical_device)>>]
     ELSE IF Len(candidate.extensions) = 0
       THEN [list |-> <<>>, trace |-> <<Event(call, physical_device)>>]
     ELSE IF rs[2] # VK_SUCCESS
       THEN [list |-> <<>>,
             trace |-> <<Event(call, physical_device), Event(call, physical_device)>>]
     ELSE [list |-> candidate.extensions,
           trace |-> <<Event(call, physical_device), Event(call, physical_device)>>]

\* Loop of ChoosePhysicalDevice from candidate i on.
RECURSIVE ChooseFrom(_, _, _, _, _)
ChooseFrom(run, candidates, required_features, required_extensions, i) ==
  IF i > Len(candidates) THEN [run EXCEPT !.result = ErrNoPhysicalDevice]
  ELSE
    LET physical_device == PhysicalDeviceHandle(i)
        r1 == [run EXCEPT !.trace =
                 Append(@, Event("vkGetPhysicalDeviceFeatures", physical_device))]
        x == GetAvailableExtensions(physical_device, candidates[i])
        r2 == [r1 EXCEPT !.trace = @ \o x.trace]
        q == ChooseQueueFamilyIndex(r2, physical_device, candidates[i].families)
    IN IF ~AreAllRequiredFeaturesSupported(candidates[i].features, required_features)
         THEN ChooseFrom(r1, candidates, required_features, required_extensions, i + 1)
       ELSE IF ~AreAllExtensionsSupported(x.list, required_extensions)
         THEN ChooseFrom(r2, candidates, required_features, required_extensions, i + 1)
       ELSE IF q.ok
         THEN [q.run EXCEPT !.d.physical_device_ = physical_device]
       ELSE ChooseFrom(q.run, candidates, required_features, required_extensions, i + 1)

ChoosePhysicalDevice(run, platform, required_features, required_extensions) ==
  LET rs == platform.rEnumeratePhysicalDevices
      r1 == [run EXCEPT !.trace = @ \o
               Enumerated("vkEnumeratePhysicalDevices", run.d.instance_, rs)]
  IN IF EnumerationFailed(rs)
       THEN [r1 EXCEPT !.result = ErrEnumeratePhysicalDevices]
     ELSE ChooseFrom(r1, platform.candidates, required_features,
                     required_extensions, 1)

CreateDevice(run, platform, required_features, required_extensions) ==
  LET created == platform.rCreateDevice = VK_SUCCESS
  IN [d |-> [run.d EXCEPT !.device_ =
               IF created THEN DriverHandles.device ELSE @],
      result |-> IF created THEN Ok ELSE ErrCreateDevice,
      trace |-> Append(run.trace,
                  Event("vkCreateDevice",
                        [physicalDevice |-> run.d.physical_device_,
                         queueFamilyIndex |-> run.d.queue_family_index_,
                         pEnabledFeatures |-> RequestedFeatures(required_features),
                         ppEnabledExtensionNames |-> required_extensions]))]

GetDeviceQueue_NoNullCheck(run, platform) ==
  [d |-> [run.d EXCEPT !.queue_ = platform.queue],
   result |-> Ok,
   trace |-> Append(run.trace,
               Event("vkGetDeviceQueue",
                     [device |-> run.d.device_,
                      queueFamilyIndex |-> run.d.queue_family_index_]))]

GetDeviceQueue(run, platform) ==
  [d |-> [run.d EXCEPT !.queue_ = platform.queue],
   result |-> IF platform.queue = VK_NULL_HANDLE THEN ErrGetDeviceQueue ELSE Ok,
   trace |-> Append(run.trace,
               Event("vkGetDeviceQueue",
                     [device |-> run.d.device_,
                      queueFamilyIndex |-> run.d.queue_family_index_]))]

\* The destroy_device_ branch of Initialize after the pointers are loaded.
BootstrapDevice(run, platform, required_features, required_extensions) ==
  LET r1 == CreateDebugReportCallback(run, platform)
      r2 == ChoosePhysicalDevice(r1, platform, required_features, required_extensions)
      r3 == CreateDevice(r2, platform, required_features, required_extensions)
      r4 == GetDeviceQueue(r3, platform)
  IN IF r1.result # Ok THEN r1
     ELSE IF r2.result # Ok THEN r2
     ELSE IF r3.result # Ok THEN r3
     ELSE r4

\* The other branch: the checks made on a host-supplied device.
CheckSuppliedDevice_ExtensionsFirst(run, required_features, required_extensions) ==
  IF ~AreAllExtensionsSupported(run.d.available_physical_device_extensions_,
                                required_extensions)
    THEN [run EXCEPT !.result = ErrExtensionsNotSupported]
  ELSE IF ~AreAllRequiredFeaturesSupported(run.d.available_physical_device_features_,
                                           required_features)
    THEN [run EXCEPT !.result = ErrFeaturesNotSupported]
  ELSE run

CheckSuppliedDevice(run, required_features, required_extensions) ==
  IF ~AreAllRequiredFeaturesSupported(run.d.available_physical_device_features_,
                                      required_features)
    THEN [run EXCEPT !.result = ErrFeaturesNotSupported]
  ELSE IF ~AreAllExtensionsSupported(run.d.available_physical_device_extensions_,
                                     required_extensions)
    THEN [run EXCEPT !.result = ErrExtensionsNotSupported]
  ELSE run

GetProperties(run) ==
  [run EXCEPT !.trace = @ \o
     <<Event("vkGetPhysicalDeviceProperties", run.d.physical_device_),
       Event("vkGetPhysicalDeviceMemoryProperties", run.d.physical_device_)>>]

DeviceInitialize(d, platform, required_features, required_extensions) ==
  LET r1 == LoadVulkanGlobalPointers(Run(d), platform.unresolved)
      r2 == IF d.destroy_device_ THEN CreateInstance(r1, platform) ELSE r1
      r3 == LoadVulkanPointers(r2, platform.unresolved)
      r4 == IF d.destroy_device_
              THEN BootstrapDevice(r3, platform, required_features, required_extensions)
            ELSE CheckSuppliedDevice(r3, required_features, required_extensions)
  IN IF r1.result # Ok THEN r1
     ELSE IF r2.result # Ok THEN r2
     ELSE IF r3.result # Ok THEN r3
     ELSE IF r4.result # Ok THEN r4
     ELSE GetProperties(r4)

\* Most physical devices vkEnumeratePhysicalDevices reports.
MaxDevices == 2

\* What a physical device can be: its features, its extension list and the
\* answers to the two calls that enumerate it, and its queue families.
Candidates ==
  {[features |-> f,
    extensions |-> x.extensions,
    rEnumerateDeviceExtensionProperties |-> x.rs,
    families |-> q] :
     f \in {{"robustBufferAccess"}, {"robustBufferAccess", "geometryShader"}},
     x \in {[extensions |-> <<>>, rs |-> <<VK_SUCCESS, VK_SUCCESS>>],
            [extensions |-> <<"VK_KHR_b", "VK_KHR_a">>, rs |-> <<VK_SUCCESS, VK_SUCCESS>>],
            [extensions |-> <<"VK_KHR_b", "VK_KHR_a">>, rs |-> <<VK_ERROR>>],
            [extensions |-> <<"VK_KHR_b", "VK_KHR_a">>, rs |-> <<VK_SUCCESS, VK_ERROR>>]},
     q \in {<<{VK_QUEUE_TRANSFER_BIT}>>,
            <<{VK_QUEUE_TRANSFER_BIT}, {VK_QUEUE_COMPUTE_BIT},
              {VK_QUEUE_GRAPHICS_BIT, VK_QUEUE_COMPUTE_BIT}>>}}

TwoCallResults ==
  {<<VK_SUCCESS, VK_SUCCESS>>, <<VK_ERROR>>, <<VK_SUCCESS, VK_ERROR>>}

\* A platform on which every step of Initialize succeeds.
GoodPlatform ==
  [unresolved |-> {},
   rEnumerateInstanceLayerProperties |-> <<VK_SUCCESS, VK_SUCCESS>>,
   layers |-> Range(kRequiredValidationLayers),
   rEnumerateInstanceExtensionProperties |-> <<VK_SUCCESS, VK_SUCCESS>>,
   layerExtensions |-> {kExtensionForValidationLayer},
   rCreateInstance |-> VK_SUCCESS,
   rCreateDebugReportCallback |-> VK_SUCCESS,
   rEnumeratePhysicalDevices |-> <<VK_SUCCESS, VK_SUCCESS>>,
   candidates |->
     <<[features |-> {"robustBufferAccess", "geometryShader"},
        extensions |-> <<"VK_KHR_b", "VK_KHR_a">>,
        rEnumerateDeviceExtensionProperties |-> <<VK_SUCCESS, VK_SUCCESS>>,
        families |-> <<{VK_QUEUE_GRAPHICS_BIT}>>]>>,
   rCreateDevice |-> VK_SUCCESS,
   queue |-> DriverHandles.queue]

\* Platforms that answer null for one entry point.
UnresolvedPlatforms ==
  {[GoodPlatform EXCEPT !.unresolved = {f}] :
     f \in Range(GlobalFuncs) \cup Range(InstanceFuncs)}

\* Platforms on which any of the calls of Initialize may fail.
FailingPlatforms ==
  {[GoodPlatform EXCEPT
      !.rEnumerateInstanceLayerProperties = rl,
      !.layers = l,
      !.rEnumerateInstanceExtensionProperties = rx,
      !.layerExtensions = x,
      !.rCreateInstance = rs[1],
      !.rCreateDebugReportCallback = rs[2],
      !.rEnumeratePhysicalDevices = rp,
      !.rCreateDevice = rs[3],
      !.queue = q] :
     rl \in TwoCallResults,
     l \in {{}, Range(kRequiredValidationLayers)},
     rx \in TwoCallResults,
     x \in {{}, {kExtensionForValidationLayer}},
     rs \in [1..3 -> VkCallResults],
     rp \in TwoCallResults,
     q \in {VK_NULL_HANDLE, DriverHandles.queue}}

\* Platforms with every list of physical devices.
CandidatePlatforms ==
  {[GoodPlatform EXCEPT !.candidates = cs] : cs \in SeqsUpTo(Candidates, MaxDevices)}

Platforms(d) ==
  IF d.destroy_device_
    THEN UnresolvedPlatforms \cup FailingPlatforms \cup CandidatePlatforms
  ELSE UnresolvedPlatforms \cup {GoodPlatform}

RequiredFeatureChoices ==
  {<<>>,
   <<"kRobustBufferAccess">>,
   <<"kFramebuffer", "kRobustBufferAccess", "kRobustBufferAccess">>,
   <<"kGeometryShader", "kRobustBufferAccess">>}

RequiredExtensionChoices == {<<>>, <<"VK_KHR_a">>}

\* Devices built by the adopting constructor.
AdoptedDevices ==
  {[DeviceDefaults EXCEPT
      !.instance_ = HostHandles.instance,
      !.physical_device_ = HostHandles.physical_device,
      !.available_physical_device_features_ = available_features,
      !.available_physical_device_extensions_ = available_extensions,
      !.queue_family_index_ = HostHandles.queue_family_index,
      !.device_ = HostHandles.device,
      !.queue_ = HostHandles.queue,
      !.destroy_device_ = FALSE] :
     available_features \in {{}, {"robustBufferAccess"},
                             {"robustBufferAccess", "geometryShader"}},
     available_extensions \in {<<>>, <<"VK_KHR_b", "VK_KHR_a">>}}

DeviceInit ==
  /\ CommandBufferUnused
  /\ pool = NoPoolCall
  /\ fn = NoApplication
  /\ devLast = NoDeviceCall
  /\ dev \in {DeviceDefaults} \cup AdoptedDevices

CallDeviceInitialize ==
  /\ devLast.op = "none"
  /\ \E platform \in Platforms(dev),
        required_features \in RequiredFeatureChoices,
        required_extensions \in RequiredExtensionChoices :
       LET run == DeviceInitialize(dev, platform, required_features,
                                   required_extensions)
       IN /\ dev' = run.d
          /\ devLast' = [op |-> "Initialize",
                         result |-> run.result,
                         trace |-> run.trace,
                         pre |-> dev,
                         platform |-> platform,
                         required_features |-> required_features,
                         required_extensions |-> required_extensions]
  /\ UNCHANGED <<commandBufferVars, pool, fn>>

DeviceNext == CallDeviceInitialize

SpecDevice == DeviceInit /\ [][DeviceNext]_vars

\* ------------------------------------------------ Device::Shutdown
\* What a call through a member of ptrs_ that holds no resolved entry point
\* (never assigned, or assigned null) can do: end the process, or return
\* without effect.
UndefinedOutcomes == {"crash", "returns"}

\* The three calls Shutdown makes in the owning mode, with the handle each
\* one is given.
DestroyCalls(d) ==
  <<Event("vkDestroyDevice", d.device_),
    Event("vkDestroyDebugReportCallbackEXT", d.callback_),
    Event("vkDestroyInstance", d.instance_)>>

\* The calls of Shutdown from the i-th on.
RECURSIVE ShutdownFrom(_, _, _)
ShutdownFrom(d, undefined, i) ==
  IF i > Len(DestroyCalls(d)) THEN [trace |-> <<>>, crashed |-> FALSE]
  ELSE
    LET call == DestroyCalls(d)[i]
        rest == ShutdownFrom(d, undefined, i + 1)
    IN IF call.call \in d.ptrs_
         THEN [trace |-> <<call>> \o rest.trace, crashed |-> rest.crashed]
       ELSE IF undefined = "crash"
         THEN [trace |-> <<Event("unresolved", call.call)>>, crashed |-> TRUE]
       ELSE [trace |-> <<Event("unresolved", call.call)>> \o rest.trace,
             crashed |-> rest.crashed]

DeviceShutdown_IgnoresMode(d, undefined) ==
  ShutdownFrom(d, undefined, 1)

DeviceShutdown(d, undefined) ==
  IF d.destroy_device_ THEN ShutdownFrom(d, undefined, 1)
  ELSE [trace |-> <<>>, crashed |-> FALSE]

\* What the calls of Shutdown so far destroyed, how many there were, whether
\* the process is gone, and the call of Initialize that preceded them.
DestroyedSoFar == IF devLast.op = "Shutdown" THEN devLast.destroyed ELSE <<>>
DeviceShutdownCalls == IF devLast.op = "Shutdown" THEN devLast.shutdownCalls ELSE 0
Crashed == devLast.op = "Shutdown" /\ devLast.crashed
InitializeBefore == IF devLast.op = "Shutdown" THEN devLast.init ELSE devLast

\* Platforms a Device is initialized on before it is shut down.
LifecyclePlatforms(d) ==
  IF d.destroy_device_ THEN UnresolvedPlatforms \cup FailingPlatforms
  ELSE UnresolvedPlatforms \cup {GoodPlatform}

CallDeviceInitializeOnce ==
  /\ devLast.op = "none"
  /\ \E platform \in LifecyclePlatforms(dev) :
       LET run == DeviceInitialize(dev, platform, <<>>, <<>>)
       IN /\ dev' = run.d
          /\ devLast' = [op |-> "Initialize",
                         result |-> run.result,
                         trace |-> run.trace,
                         pre |-> dev,
                         platform |-> platform,
                         required_features |-> <<>>,
                         required_extensions |-> <<>>]
  /\ UNCHANGED <<commandBufferVars, pool, fn>>

CallDeviceShutdown ==
  /\ DeviceShutdownCalls < MaxShutdown
  /\ ~Crashed
  /\ \E undefined \in UndefinedOutcomes :
       LET o == DeviceShutdown(dev, undefined)
           destroys == SelectSeq(o.trace, LAMBDA e : e.call # "unresolved")
       IN \* without an unresolved call there is no outcome to vary
          /\ destroys = o.trace => undefined = "crash"
          /\ devLast' = [op |-> "Shutdown",
                         result |-> Ok,
                         trace |-> o.trace,
                         pre |-> dev,
                         init |-> InitializeBefore,
                         shutdownCalls |-> DeviceShutdownCalls + 1,
                         destroyed |-> DestroyedSoFar \o destroys,
                         crashed |-> o.crashed]
  /\ UNCHANGED <<commandBufferVars, pool, dev, fn>>

LifecycleNext ==
  \/ CallDeviceInitializeOnce
  \/ CallDeviceShutdown

SpecLifecycle == DeviceInit /\ [][LifecycleNext]_vars

\* ------------------------------------------- the validation-layer check
LayersInit ==
  /\ CommandBufferUnused
  /\ pool = NoPoolCall
  /\ dev = DeviceDefaults
  /\ devLast = NoDeviceCall
  /\ \E required_layers \in {kRequiredValidationLayers, kRequiredValidationLayersAndroid},
        rs \in TwoCallResults :
       \E available_layers \in SUBSET (Range(required_layers) \cup {"VK_LAYER_RENDERDOC_Capture"}) :
         fn = [f |-> "AreAllValidationLayersSupported", applied |-> FALSE,
               required_layers |-> required_layers, rs |-> rs,
               available_layers |-> available_layers,
               result |-> Ok, missing_layers |-> <<>>]

ApplyAreAllValidationLayersSupported ==
  /\ fn.f = "AreAllValidationLayersSupported"
  /\ ~fn.applied
  /\ LET check == ValidationLayersCheck(fn.required_layers, fn.rs, fn.available_layers)
     IN fn' = [fn EXCEPT !.applied = TRUE,
                         !.result = check.result,
                         !.missing_layers = check.missing_layers]
  /\ UNCHANGED <<commandBufferVars, pool, dev, devLast>>

LayersNext == ApplyAreAllValidationLayersSupported

SpecLayers == LayersInit /\ [][LayersNext]_vars

\* ------------------------------------------------- the wait timeout
\* uint32_t and uint64_t values as 16-bit limbs, least significant first.
LimbBase == 65536

\* static_cast<uint64_t>(timeout_ms): timeout_ms is [hi, lo], two limbs.
ToU64(timeout_ms) == <<timeout_ms.lo, timeout_ms.hi, 0, 0>>

\* x * m on uint64_t, m below LimbBase: the product modulo 2^64 and the
\* carry out of the top limb that the machine drops.
MulU64Wide(x, m) ==
  LET p1 == x[1] * m
      p2 == x[2] * m + p1 \div LimbBase
      p3 == x[3] * m + p2 \div LimbBase
      p4 == x[4] * m + p3 \div LimbBase
  IN [value |-> <<p1 % LimbBase, p2 % LimbBase, p3 % LimbBase, p4 % LimbBase>>,
      carry |-> p4 \div LimbBase]

MulU64(x, m) == MulU64Wide(x, m).value

\* x / m and x % m on uint64_t, m below LimbBase, by long division.
DivU64(x, m) ==
  LET c4 == x[4]
      c3 == (c4 % m) * LimbBase + x[3]
      c2 == (c3 % m) * LimbBase + x[2]
      c1 == (c2 % m) * LimbBase + x[1]
  IN [quotient |-> <<c1 \div m, c2 \div m, c3 \div m, c4 \div m>>,
      remainder |-> c1 % m]

\* Mutant of WaitTimeoutNsU64: the product computed in uint32_t.
WaitTimeoutNsU64_NoWidening(timeout_ms) ==
  LET product == MulU64(MulU64(ToU64(timeout_ms), 1000), 1000)
  IN <<product[1], product[2], 0, 0>>

\* static_cast<uint64_t>(timeout_ms) * 1000ULL * 1000ULL
WaitTimeoutNsU64(timeout_ms) ==
  MulU64(MulU64(ToU64(timeout_ms), 1000), 1000)

\* Limbs of the timeout_ms values tried: the ends of the range of a limb and
\* the values around a byte and a sign boundary.
TimeoutLimbs == {0, 1, 2, 255, 256, 1000, 32767, 32768, 65534, 65535}

TimeoutInit ==
  /\ CommandBufferUnused
  /\ pool = NoPoolCall
  /\ dev = DeviceDefaults
  /\ devLast = NoDeviceCall
  /\ \E hi \in TimeoutLimbs, lo \in TimeoutLimbs :
       fn = [f |-> "WaitTimeoutNs", applied |-> FALSE,
             timeout_ms |-> [hi |-> hi, lo |-> lo],
             timeout_ns |-> <<0, 0, 0, 0>>]

ApplyWaitTimeoutNs ==
  /\ fn.f = "WaitTimeoutNs"
  /\ ~fn.applied
  /\ fn' = [fn EXCEPT !.applied = TRUE,
                      !.timeout_ns = WaitTimeoutNsU64(fn.timeout_ms)]
  /\ UNCHANGED <<commandBufferVars, pool, dev, devLast>>

TimeoutNext == ApplyWaitTimeoutNs

SpecTimeout == TimeoutInit /\ [][TimeoutNext]_vars

\* ------------------------------------------------------------- the claims
AllSucceeded == \A i \in DOMAIN last.answers : last.answers[i] = VK_SUCCESS

\* How often command buffer c is among the submissions pending on the queue.
Outstanding(c) == Cardinality({i \in DOMAIN pending : pending[i].cmd = c})

\* C1: at most one submission of a command buffer is outstanding on the queue
\* at any time: SubmitAndReset never calls vkQueueSubmit for the buffer while
\* an earlier submission of it (or one that signals its fence) is still
\* pending, whatever the queue submits and fence waits answered before.
C1_AtMostOneOutstanding ==
  /\ \A c \in liveCommands : Outstanding(c) <= 1
  /\ (last.op = "SubmitAndReset" /\ Called("vkQueueSubmit")) => ~last.busy

\* C2: state_ starts as kInitial, is always one of kInitial, kRecording,
\* kExecutable, and changes only kInitial -> kRecording in
\* BeginIfNotInRecording, kRecording -> kExecutable in End and
\* kExecutable -> kInitial in SubmitAndReset.
C2_OnlyThreeTransitions ==
  /\ state_ = kInitial
  /\ [](state_ \in CommandBufferState)
  /\ [][state_' # state_ =>
          \/ /\ state_ = kInitial /\ state_' = kRecording
             /\ last'.op = "BeginIfNotInRecording"
          \/ /\ state_ = kRecording /\ state_' = kExecutable
             /\ last'.op = "End"
          \/ /\ state_ = kExecutable /\ state_' = kInitial
             /\ last'.op = "SubmitAndReset"]_vars

\* C2 witness: a SubmitAndReset took the buffer from kExecutable back to
\* kInitial, closing the cycle of the three transitions.
C2_Witness ==
  /\ last.op = "SubmitAndReset" /\ last.pre = kExecutable /\ state_ = kInitial

\* C3: when SubmitAndReset is called in kExecutable and vkWaitForFences answers
\* VK_TIMEOUT, it returns the timeout error, which differs from the wait-failure
\* error, makes no vkResetCommandBuffer call and leaves the state kExecutable.
C3_TimeoutKeepsExecutable ==
  (/\ last.op = "SubmitAndReset" /\ last.pre = kExecutable
   /\ Answered("vkWaitForFences", VK_TIMEOUT))
    => /\ last.result = ErrWaitTimeout
       /\ last.result # ErrWait
       /\ ~Called("vkResetCommandBuffer")
       /\ state_ = kExecutable

\* C3 witness: a SubmitAndReset whose wait timed out has returned.
C3_Witness ==
  /\ last.op = "SubmitAndReset" /\ last.pre = kExecutable
  /\ Answered("vkWaitForFences", VK_TIMEOUT)
  /\ last.result = ErrWaitTimeout

\* C4: on an initialized buffer in kInitial, when every vk* call succeeds (the
\* fence wait included), BeginIfNotInRecording, End and SubmitAndReset each
\* return success and leave kRecording, kExecutable and kInitial; this holds in
\* every cycle, not only the first.
C4_CycleSucceeds ==
  AllSucceeded =>
    /\ (last.op = "BeginIfNotInRecording" /\ last.pre = kInitial)
         => (last.result = Ok /\ state_ = kRecording)
    /\ (last.op = "End" /\ last.pre = kRecording)
         => (last.result = Ok /\ state_ = kExecutable)
    /\ (last.op = "SubmitAndReset" /\ last.pre = kExecutable)
         => (last.result = Ok /\ state_ = kInitial /\ Len(last.calls) = 4)

\* C4 witness: the second full cycle has ended with a successful SubmitAndReset.
C4_Witness ==
  /\ cycles = 2 /\ last.op = "SubmitAndReset" /\ last.pre = kExecutable
  /\ AllSucceeded /\ last.result = Ok /\ state_ = kInitial

\* C5: SubmitAndReset called in kInitial or kRecording returns the invalid-state
\* error, leaves the state as it was and makes no vk* call at all.
C5_SubmitFromWrongState ==
  (last.op = "SubmitAndReset" /\ last.pre \in {kInitial, kRecording})
    => /\ last.result = ErrSubmitState /\ last.result # Ok
       /\ state_ = last.pre
       /\ last.calls = <<>>
       /\ last.timeout_ns = -1

\* C5 witness: SubmitAndReset was refused while a recording was open.
C5_Witness ==
  /\ last.op = "SubmitAndReset" /\ last.pre = kRecording
  /\ last.result = ErrSubmitState /\ state_ = kRecording

\* C6: End returns success only when called in kRecording, and then leaves
\* kExecutable; called in kInitial or kExecutable it returns the invalid-state
\* error, leaves the state as it was and does not call vkEndCommandBuffer.
C6_EndOnlyFromRecording ==
  last.op = "End" =>
    /\ last.result = Ok => (last.pre = kRecording /\ state_ = kExecutable)
    /\ last.pre \in {kInitial, kExecutable}
         => /\ last.result = ErrEndState
            /\ state_ = last.pre
            /\ ~Called("vkEndCommandBuffer")

\* C6 witness: End was refused on a buffer that was already kExecutable.
C6_Witness ==
  /\ last.op = "End" /\ last.pre = kExecutable
  /\ last.result = ErrEndState /\ state_ = kExecutable

\* C7: BeginIfNotInRecording called in kRecording returns success, leaves
\* kRecording and does not call vkBeginCommandBuffer; so a call that follows a
\* successful call from kInitial succeeds too without beginning the buffer again.
C7_BeginIdempotent ==
  /\ [](last.op = "BeginIfNotInRecording" /\ last.pre = kRecording
          => /\ last.result = Ok
             /\ state_ = kRecording
             /\ ~Called("vkBeginCommandBuffer"))
  /\ [][(/\ last.op = "BeginIfNotInRecording" /\ last.pre = kInitial
         /\ last.result = Ok
         /\ last'.op = "BeginIfNotInRecording" /\ last' # last)
          => /\ last'.result = Ok
             /\ last'.calls = <<>>
             /\ state_' = kRecording]_vars

\* C7 witness: BeginIfNotInRecording returned from a call made in kRecording.
C7_Witness ==
  /\ last.op = "BeginIfNotInRecording" /\ last.pre = kRecording
  /\ last.result = Ok /\ state_ = kRecording

\* C8: BeginIfNotInRecording called in kExecutable returns the invalid-state
\* error, leaves kExecutable and does not call vkBeginCommandBuffer.
C8_BeginFromExecutable ==
  (last.op = "BeginIfNotInRecording" /\ last.pre = kExecutable)
    => /\ last.result = ErrBeginState
       /\ state_ = kExecutable
       /\ ~Called("vkBeginCommandBuffer")

\* C8 witness: BeginIfNotInRecording was refused on a kExecutable buffer.
C8_Witness ==
  /\ last.op = "BeginIfNotInRecording" /\ last.pre = kExecutable
  /\ last.result = ErrBeginState

\* A vk* call of the latest method answered an error other than VK_TIMEOUT.
UnderlyingCallFailed ==
  \E i \in DOMAIN last.answers : last.answers[i] \notin {VK_SUCCESS, VK_TIMEOUT}

\* C9: when BeginIfNotInRecording, End or SubmitAndReset returns an error
\* because a vk* call failed (begin, end, fence reset, queue submit, a wait
\* failure other than timeout, command-buffer reset), state_ is what it was
\* before the call.
C9_FailedCallKeepsState ==
  (/\ last.op \in {"BeginIfNotInRecording", "End", "SubmitAndReset"}
   /\ UnderlyingCallFailed)
    => (last.result # Ok /\ state_ = last.pre)

\* C9 witness: SubmitAndReset failed at vkResetCommandBuffer, after the wait
\* had succeeded.
C9_Witness ==
  /\ last.op = "SubmitAndReset"
  /\ Answered("vkResetCommandBuffer", VK_ERROR)
  /\ last.result = ErrResetCommandBuffer /\ state_ = kExecutable

\* C10: Shutdown never destroys the fence or frees the command buffer while a
\* submission that uses them is still pending on the queue.
C10_NoDestroyWhilePending ==
  (/\ last.op = "Shutdown"
   /\ (Called("vkDestroyFence") \/ Called("vkFreeCommandBuffers")))
    => ~last.busy

\* C11: CommandBuffer::Shutdown on a never-initialized instance calls neither
\* vkDestroyFence nor vkFreeCommandBuffers, and over any number of Shutdown
\* calls no fence and no command buffer is destroyed or freed more than once.
C11_ShutdownReleasesOnce ==
  /\ (last.op = "Shutdown" /\ initCalls = 0) => last.calls = <<>>
  /\ \A i, j \in DOMAIN released : i # j => released[i] # released[j]

\* The one Initialize call made so far succeeded.
InitializedOnce ==
  initCalls = 1 /\ command_ # VK_NULL_HANDLE /\ fence_ # VK_NULL_HANDLE

\* C13: after one successful Initialize, however many Begin/End/SubmitAndReset
\* cycles run, no further command buffer or fence is allocated and exactly one
\* of each is live; one Shutdown after that releases both and leaves none live.
C13_OneBufferOneFence ==
  InitializedOnce =>
    /\ nextHandle = 3
    /\ released = <<>>
         => (liveCommands = {command_} /\ liveFences = {fence_})
    /\ released # <<>>
         => /\ liveCommands = {} /\ liveFences = {}
            /\ SubSeq(released, 1, 2)
                 = <<[kind |-> "fence", handle |-> fence_],
                     [kind |-> "command", handle |-> command_]>>

\* C13 witness: two cycles ran on the one buffer and a Shutdown released it.
C13_Witness ==
  /\ InitializedOnce /\ cycles = 2 /\ state_ = kInitial
  /\ last.op = "Shutdown" /\ Len(released) = 2
  /\ liveCommands = {} /\ liveFences = {}

\* C12: CommandPool::Shutdown on a never-initialized pool does not call
\* vkDestroyCommandPool, and however often Shutdown is called after a
\* successful Initialize, the pool is destroyed once only.
C12_PoolDestroyedOnce ==
  /\ (pool.op = "Shutdown" /\ pool.initCalls = 0) => pool.calls = <<>>
  /\ \A i, j \in DOMAIN pool.destroyed :
       i # j => pool.destroyed[i] # pool.destroyed[j]

\* A feature corresponds to a device feature toggle when RequestedFeatures
\* has a VkPhysicalDeviceFeatures member to set for it.
HasToggle(f) == RequestedFeatures(<<f>>) # {}

FeatureEnabled(available_features, f) ==
  HasToggle(f) /\ RequestedFeatures(<<f>>) \subseteq available_features

AppliedFeatures == fn.f = "AreAllRequiredFeaturesSupported" /\ fn.applied

\* C16 as stated: AreAllRequiredFeaturesSupported returns true when required
\* is empty, and otherwise exactly when every feature listed in required is
\* enabled in available.
C16_AllListedEnabled ==
  AppliedFeatures =>
    fn.result = (\/ fn.required = <<>>
                 \/ \A f \in Range(fn.required) : FeatureEnabled(fn.available, f))

\* C16 amended: AreAllRequiredFeaturesSupported returns true exactly when
\* every feature of required that has a device toggle is enabled in
\* available (features without a toggle are ignored; true for empty
\* required); the result is the same for every list with the same elements.
C16_AllToggledEnabled ==
  AppliedFeatures =>
    /\ fn.result = (\A f \in Range(fn.required) :
                      HasToggle(f) => FeatureEnabled(fn.available, f))
    /\ \A other \in SeqsUpTo(Range(fn.required), Len(fn.required)) :
         Range(other) = Range(fn.required) =>
           AreAllRequiredFeaturesSupported(fn.available, other) = fn.result

C16_Witness ==
  /\ AppliedFeatures
  /\ fn.required = <<"kFramebuffer", "kGeometryShader">>
  /\ fn.available = {"geometryShader"}
  /\ fn.result

AppliedExtensions == fn.f = "AreAllExtensionsSupported" /\ fn.applied

\* C17: AreAllExtensionsSupported returns true exactly when every name of
\* required occurs in available, whatever the order and the duplicates of
\* the two lists, and appending to required a name that available lacks
\* makes it return false.
C17_AllNamesOccur ==
  AppliedExtensions =>
    /\ fn.result = (Range(fn.required) \subseteq Range(fn.available))
    /\ \A e \in ExtensionNames \ Range(fn.available) :
         ~AreAllExtensionsSupported(fn.available, Append(fn.required, e))

C17_Witness ==
  /\ AppliedExtensions
  /\ fn.required = <<"VK_KHR_a", "VK_KHR_a">>
  /\ fn.available = <<"VK_KHR_b", "VK_KHR_a">>
  /\ fn.result

DeviceInitialized == devLast.op = "Initialize"

EventsOf(name) == {k \in DOMAIN devLast.trace : devLast.trace[k].call = name}

\* Initialize got as far as the loop of ChoosePhysicalDevice.
ChoseAmongCandidates ==
  /\ DeviceInitialized
  /\ devLast.pre.destroy_device_
  /\ Cardinality(EventsOf("vkEnumeratePhysicalDevices")) = 2
  /\ devLast.platform.rEnumeratePhysicalDevices = <<VK_SUCCESS, VK_SUCCESS>>

SupportsFeatures(available_features, required_features) ==
  \A f \in Range(required_features) :
    HasToggle(f) => FeatureEnabled(available_features, f)

SupportsExtensions(available_extensions, required_extensions) ==
  Range(required_extensions) \subseteq Range(available_extensions)

GraphicsOrComputeFamilies(candidate) ==
  {j \in DOMAIN candidate.families : GraphicsOrCompute(candidate.families[j])}

\* Candidates that pass the three checks.
Passing ==
  {i \in DOMAIN devLast.platform.candidates :
     LET c == devLast.platform.candidates[i]
     IN /\ SupportsFeatures(c.features, devLast.required_features)
        /\ SupportsExtensions(c.extensions, devLast.required_extensions)
        /\ GraphicsOrComputeFamilies(c) # {}}

\* Candidates whose features were queried.
Examined ==
  {i \in DOMAIN devLast.platform.candidates :
     \E k \in EventsOf("vkGetPhysicalDeviceFeatures") :
       devLast.trace[k].arg = PhysicalDeviceHandle(i)}

\* C14: ChoosePhysicalDevice selects the lowest-index candidate that
\* supports the required features and extensions and has a graphics-or-compute
\* queue family, examines none after it, and fails with the no-suitable-device
\* error exactly when no candidate passes.
C14_LowestPassingSelected ==
  ChoseAmongCandidates =>
    IF Passing = {}
      THEN /\ devLast.result = ErrNoPhysicalDevice
           /\ dev.physical_device_ = VK_NULL_HANDLE
    ELSE /\ devLast.result # ErrNoPhysicalDevice
         /\ dev.physical_device_ = PhysicalDeviceHandle(Min(Passing))
         /\ Examined = 1..Min(Passing)

C18_AdoptedOnlyChecks ==
  (DeviceInitialized /\ ~devLast.pre.destroy_device_) =>
    /\ \A name \in {"vkCreateInstance", "vkCreateDebugReportCallbackEXT",
                    "vkEnumeratePhysicalDevices", "vkCreateDevice"} :
         EventsOf(name) = {}
    /\ dev.instance_ = devLast.pre.instance_
    /\ dev.physical_device_ = devLast.pre.physical_device_
    /\ dev.device_ = devLast.pre.device_
    /\ dev.queue_ = devLast.pre.queue_
    /\ dev.queue_family_index_ = devLast.pre.queue_family_index_
    /\ devLast.platform.unresolved = {} =>
         devLast.result =
           IF ~SupportsFeatures(devLast.pre.available_physical_device_features_,
                                devLast.required_features)
             THEN ErrFeaturesNotSupported
           ELSE IF ~SupportsExtensions(devLast.pre.available_physical_device_extensions_,
                                       devLast.required_extensions)
             THEN ErrExtensionsNotSupported
           ELSE Ok

C18_Witness ==
  /\ DeviceInitialized
  /\ ~devLast.pre.destroy_device_
  /\ devLast.platform.unresolved = {}
  /\ ~SupportsFeatures(devLast.pre.available_physical_device_features_,
                       devLast.required_features)
  /\ ~SupportsExtensions(devLast.pre.available_physical_device_extensions_,
                         devLast.required_extensions)
  /\ devLast.result = ErrFeaturesNotSupported
  /\ dev.instance_ = HostHandles.instance

\* C19: the features enabled at vkCreateDevice are exactly the members that
\* the required features correspond to, whatever the selected physical
\* device supports and whatever the order and duplicates of the list.
C19_EnabledAreRequired ==
  DeviceInitialized =>
    \A k \in EventsOf("vkCreateDevice") :
      devLast.trace[k].arg.pEnabledFeatures =
        UNION {SupportedFeaturesSwitch[f] : f \in Range(devLast.required_features)}

C19_Witness ==
  /\ DeviceInitialized
  /\ devLast.required_features =
       <<"kFramebuffer", "kRobustBufferAccess", "kRobustBufferAccess">>
  /\ dev.physical_device_ = PhysicalDeviceHandle(1)
  /\ devLast.platform.candidates[1].features = {"robustBufferAccess", "geometryShader"}
  /\ \E k \in EventsOf("vkCreateDevice") :
       devLast.trace[k].arg.pEnabledFeatures = {"robustBufferAccess"}

EntryPoints == Range(GlobalFuncs) \cup Range(InstanceFuncs)

\* Entry points resolved, and entry points called, by position in the trace.
Resolutions ==
  {k \in EventsOf("getInstanceProcAddr") :
     devLast.trace[k].arg.name \notin devLast.platform.unresolved}

Operations == {k \in DOMAIN devLast.trace : devLast.trace[k].call \in EntryPoints}

\* C20 as stated: every entry point is resolved before any other operation
\* of Initialize, and an unresolved one makes Initialize fail with no
\* operation executed.
C20_AllResolvedFirst ==
  DeviceInitialized =>
    /\ \A i \in Resolutions, j \in Operations : i < j
    /\ devLast.platform.unresolved # {} =>
         devLast.result = ErrUnableToLoad /\ Operations = {}

\* C20 amended: every entry point is resolved before it is called; the
\* global ones before any operation, the instance-level ones after layer
\* enumeration and instance creation and before every later operation; an
\* unresolved global entry point fails Initialize with no operation
\* executed, an unresolved instance-level one fails it with nothing but the
\* global operations executed.
C20_ResolvedBeforeUse ==
  DeviceInitialized =>
    /\ \A j \in Operations :
         \E i \in Resolutions :
           i < j /\ devLast.trace[i].arg.name = devLast.trace[j].call
    /\ \A i \in Resolutions, j \in Operations :
         (\/ devLast.trace[i].arg.name \in Range(GlobalFuncs)
          \/ devLast.trace[j].call \notin Range(GlobalFuncs)) => i < j
    /\ devLast.platform.unresolved \cap Range(GlobalFuncs) # {} =>
         devLast.result = ErrUnableToLoad /\ Operations = {}
    /\ devLast.platform.unresolved # {} =>
         /\ devLast.result # Ok
         /\ \A j \in Operations : devLast.trace[j].call \in Range(GlobalFuncs)

C20_Witness ==
  /\ DeviceInitialized
  /\ devLast.pre.destroy_device_
  /\ devLast.platform.unresolved = {"vkCreateDevice"}
  /\ devLast.result = ErrUnableToLoad
  /\ EventsOf("vkCreateInstance") # {}
  /\ dev.instance_ = DriverHandles.instance

\* The entry point whose call marks each step of a bootstrap, in the order
\* of the steps.
BootstrapSteps ==
  <<"vkEnumerateInstanceLayerProperties",
    "vkEnumerateInstanceExtensionProperties",
    "vkCreateInstance",
    "vkCreateDebugReportCallbackEXT",
    "vkEnumeratePhysicalDevices",
    "vkCreateDevice",
    "vkGetDeviceQueue">>

\* The error each step returns on the platform of the latest Initialize, Ok
\* when the step succeeds there.  Selection fails when the enumeration of
\* physical devices fails or when no physical device was stored.
StepError(k) ==
  LET p == devLast.platform
  IN CASE k = 1 -> IF EnumerationFailed(p.rEnumerateInstanceLayerProperties)
                     THEN ErrEnumerateLayers
                   ELSE IF ~(Range(kRequiredValidationLayers) \subseteq p.layers)
                     THEN ErrMissingLayers
                   ELSE Ok
       [] k = 2 -> IF \/ EnumerationFailed(p.rEnumerateInstanceExtensionProperties)
                      \/ kExtensionForValidationLayer \notin p.layerExtensions
                     THEN ErrValidationExtensions
                   ELSE Ok
       [] k = 3 -> IF p.rCreateInstance # VK_SUCCESS THEN ErrCreateInstance ELSE Ok
       [] k = 4 -> IF p.rCreateDebugReportCallback # VK_SUCCESS
                     THEN ErrCreateCallback
                   ELSE Ok
       [] k = 5 -> IF EnumerationFailed(p.rEnumeratePhysicalDevices)
                     THEN ErrEnumeratePhysicalDevices
                   ELSE IF dev.physical_device_ = VK_NULL_HANDLE
                     THEN ErrNoPhysicalDevice
                   ELSE Ok
       [] k = 6 -> IF p.rCreateDevice # VK_SUCCESS THEN ErrCreateDevice ELSE Ok
       [] k = 7 -> IF p.queue = VK_NULL_HANDLE THEN ErrGetDeviceQueue ELSE Ok

\* An owning Device was initialized with every entry point resolvable.
Bootstrapped ==
  /\ DeviceInitialized
  /\ devLast.pre.destroy_device_
  /\ devLast.platform.unresolved = {}

\* C21: a bootstrap runs layer check, extension check, instance creation,
\* callback installation, device selection, device creation and queue
\* retrieval in that order, stops at the first step that fails and returns
\* its error; the property queries run only when all seven succeeded.
C21_StepsInOrder ==
  Bootstrapped =>
    LET failing == {k \in DOMAIN BootstrapSteps : StepError(k) # Ok}
        lastStep == IF failing = {} THEN Len(BootstrapSteps) ELSE Min(failing)
    IN /\ \A k \in DOMAIN BootstrapSteps :
            EventsOf(BootstrapSteps[k]) # {} <=> k <= lastStep
       /\ \A k, l \in DOMAIN BootstrapSteps :
            k < l => \A i \in EventsOf(BootstrapSteps[k]),
                        j \in EventsOf(BootstrapSteps[l]) : i < j
       /\ devLast.result = StepError(lastStep)
       /\ EventsOf("vkGetPhysicalDeviceProperties") # {} <=> failing = {}
       /\ \A i \in EventsOf("vkGetPhysicalDeviceProperties"),
             j \in EventsOf("vkGetDeviceQueue") : j < i

C21_Witness ==
  /\ Bootstrapped
  /\ devLast.platform.queue = VK_NULL_HANDLE
  /\ devLast.result = ErrGetDeviceQueue
  /\ EventsOf("vkCreateDevice") # {}
  /\ EventsOf("vkGetPhysicalDeviceProperties") = {}
  /\ dev.device_ = DriverHandles.device

AppliedLayers == fn.f = "AreAllValidationLayersSupported" /\ fn.applied

MissingLayers == Range(fn.required_layers) \ fn.available_layers

\* C22: when the platform's layers were enumerated, the layer check succeeds
\* exactly when no required layer is missing, and otherwise fails with the
\* missing-layers message, which names every missing layer once and no other.
C22_EveryMissingLayerNamed ==
  (AppliedLayers /\ ~EnumerationFailed(fn.rs)) =>
    /\ fn.result = Ok <=> MissingLayers = {}
    /\ fn.result # Ok =>
         /\ fn.result = ErrMissingLayers
         /\ Range(fn.missing_layers) = MissingLayers
         /\ Len(fn.missing_layers) = Cardinality(MissingLayers)

C22_Witness ==
  /\ AppliedLayers
  /\ fn.rs = <<VK_SUCCESS, VK_SUCCESS>>
  /\ fn.required_layers = kRequiredValidationLayersAndroid
  /\ fn.available_layers =
       {"VK_LAYER_GOOGLE_threading", "VK_LAYER_LUNARG_object_tracker",
        "VK_LAYER_RENDERDOC_Capture"}
  /\ fn.result = ErrMissingLayers
  /\ fn.missing_layers =
       <<"VK_LAYER_GOOGLE_unique_objects", "VK_LAYER_LUNARG_core_validation",
         "VK_LAYER_LUNARG_parameter_validation">>

DeviceShutDown == devLast.op = "Shutdown"

DestroyEntryPoints ==
  {"vkDestroyDevice", "vkDestroyDebugReportCallbackEXT", "vkDestroyInstance"}

\* C23: no operation changes destroy_device_; Shutdown of an adopted Device
\* makes no call, and Shutdown of an owning Device whose destroy entry
\* points are resolved destroys device_, callback_ and instance_.
C23_ModeFixesShutdown ==
  /\ [][dev'.destroy_device_ = dev.destroy_device_]_vars
  /\ [](DeviceShutDown =>
          /\ dev.destroy_device_ = devLast.pre.destroy_device_
          /\ ~devLast.pre.destroy_device_ => devLast.trace = <<>>
          /\ (devLast.pre.destroy_device_
                /\ DestroyEntryPoints \subseteq devLast.pre.ptrs_) =>
               devLast.trace = DestroyCalls(devLast.pre))

C23_Witness ==
  /\ DeviceShutDown
  /\ devLast.init.op = "Initialize"
  /\ devLast.init.result = Ok
  /\ devLast.pre.destroy_device_
  /\ devLast.shutdownCalls = 1
  /\ devLast.trace =
       <<Event("vkDestroyDevice", DriverHandles.device),
         Event("vkDestroyDebugReportCallbackEXT", DriverHandles.callback),
         Event("vkDestroyInstance", DriverHandles.instance)>>

\* C28: Shutdown of an owning Device calls only resolved entry points,
\* passes only handles that were created, and over all calls of Shutdown
\* destroys no handle twice.
C28_ShutdownIsSafe ==
  (DeviceShutDown /\ devLast.pre.destroy_device_) =>
    /\ \A k \in DOMAIN devLast.trace :
         /\ devLast.trace[k].call # "unresolved"
         /\ devLast.trace[k].arg # VK_NULL_HANDLE
    /\ \A i, j \in DOMAIN devLast.destroyed :
         i # j => devLast.destroyed[i] # devLast.destroyed[j]

\* Candidates whose extension enumeration was called and failed.
ExtensionEnumerationFailed ==
  {i \in DOMAIN devLast.platform.candidates :
     /\ \E k \in EventsOf("vkEnumerateDeviceExtensionProperties") :
          devLast.trace[k].arg = PhysicalDeviceHandle(i)
     /\ devLast.platform.candidates[i].rEnumerateDeviceExtensionProperties
          # <<VK_SUCCESS, VK_SUCCESS>>}

\* C24: when the enumeration of a candidate's device extensions fails,
\* Initialize fails, selects no physical device and examines no later
\* candidate.
C24_EnumerationFailurePropagates ==
  ChoseAmongCandidates =>
    \A i \in ExtensionEnumerationFailed :
      /\ devLast.result # Ok
      /\ dev.physical_device_ = VK_NULL_HANDLE
      /\ Examined \subseteq 1..i

\* Candidates for which ChooseQueueFamilyIndex returned true.
QueueFamilyChosen ==
  {i \in DOMAIN devLast.platform.candidates :
     \E w \in EventsOf("queue_family_index_") :
       devLast.trace[w].arg.physical_device = PhysicalDeviceHandle(i)}

\* C25: ChooseQueueFamilyIndex returns true only for a physical device with
\* a queue family that supports compute; a device whose families support
\* graphics but not compute is rejected.
C25_ComputeFamilyRequired ==
  DeviceInitialized =>
    \A i \in QueueFamilyChosen :
      \E j \in DOMAIN devLast.platform.candidates[i].families :
        VK_QUEUE_COMPUTE_BIT \in devLast.platform.candidates[i].families[j]

\* The vk* calls of SubmitAndReset in the order the code makes them.
SubmitOperations ==
  <<"vkResetFences", "vkQueueSubmit", "vkWaitForFences", "vkResetCommandBuffer">>

SubmittedFromExecutable == last.op = "SubmitAndReset" /\ last.pre = kExecutable

\* C26: a SubmitAndReset called in kExecutable makes its vk* calls in the
\* order fence reset, queue submit with fence_, fence wait, command-buffer
\* reset, each at most once and only after every earlier one answered
\* VK_SUCCESS; the command buffer is reset only after the wait answered
\* VK_SUCCESS, and state_ becomes kInitial only when all four succeeded.
C26_SubmitOperationsInOrder ==
  /\ [](SubmittedFromExecutable =>
          /\ last.calls # <<>>
          /\ Len(last.calls) <= Len(SubmitOperations)
          /\ last.calls = SubSeq(SubmitOperations, 1, Len(last.calls))
          /\ \A i \in 1..(Len(last.calls) - 1) : last.answers[i] = VK_SUCCESS
          /\ Called("vkResetCommandBuffer") =>
               Answered("vkWaitForFences", VK_SUCCESS)
          /\ state_ = IF /\ last.calls = SubmitOperations
                         /\ \A i \in DOMAIN last.calls :
                              last.answers[i] = VK_SUCCESS
                        THEN kInitial
                      ELSE kExecutable
          /\ (last.result = Ok) = (state_ = kInitial))
  /\ [][Len(pending') > Len(pending) =>
          /\ last'.op = "SubmitAndReset"
          /\ last'.pre = kExecutable
          /\ pending' = Append(pending, [cmd |-> command_, fence |-> fence_])]_vars

C26_Witness ==
  /\ SubmittedFromExecutable
  /\ last.calls = SubmitOperations
  /\ Answered("vkWaitForFences", VK_SUCCESS)
  /\ Answered("vkResetCommandBuffer", VK_SUCCESS)
  /\ last.result = Ok
  /\ state_ = kInitial

AppliedTimeout == fn.f = "WaitTimeoutNs" /\ fn.applied

\* timeout_ms values whose product fits the model checker's integers.
SmallTimeout == fn.timeout_ms.hi = 0 /\ fn.timeout_ms.lo <= 2000

\* C27: the timeout passed to vkWaitForFences is timeout_ms * 1,000,000
\* without wrap-around: neither multiplication by 1000 carries out of 64
\* bits, dividing the result by 1000 twice gives timeout_ms back with no
\* remainder, and the timeout is zero exactly when timeout_ms is.
C27_TimeoutExactIn64Bits ==
  AppliedTimeout =>
    LET t == ToU64(fn.timeout_ms)
        once == MulU64Wide(t, 1000)
        twice == MulU64Wide(once.value, 1000)
        back1 == DivU64(fn.timeout_ns, 1000)
        back2 == DivU64(back1.quotient, 1000)
    IN /\ once.carry = 0
       /\ twice.carry = 0
       /\ back1.remainder = 0
       /\ back2.remainder = 0
       /\ back2.quotient = t
       /\ (fn.timeout_ns = <<0, 0, 0, 0>>) = (t = <<0, 0, 0, 0>>)
       /\ SmallTimeout =>
            /\ fn.timeout_ns[1] + LimbBase * fn.timeout_ns[2]
                 = WaitTimeoutNs(fn.timeout_ms.lo)
            /\ fn.timeout_ns[3] = 0
            /\ fn.timeout_ns[4] = 0

\* timeout_ms = 2^32 - 1 gives 4,294,967,295,000,000 ns.
C27_Witness ==
  /\ AppliedTimeout
  /\ fn.timeout_ms = [hi |-> 65535, lo |-> 65535]
  /\ fn.timeout_ns = <<48576, 65520, 16959, 15>>

\* The only Initialize of the CommandBuffer so far has just returned an error.
FirstInitializeFailed ==
  last.op = "Initialize" /\ initCalls = 1 /\ last.result # Ok

\* C29: when the first Initialize of a CommandBuffer fails at vkCreateFence,
\* the command buffer is live and no fence is, and a Shutdown that follows
\* frees that command buffer and makes no other call; when it fails at
\* vkAllocateCommandBuffers, vkCreateFence is not called, nothing is live and
\* a Shutdown that follows makes no call; either way no buffer or fence is
\* live after the Shutdown.
C29_FailedInitializeReleased ==
  /\ [](FirstInitializeFailed =>
          /\ last.result \in {ErrAllocate, ErrCreateFence}
          /\ liveFences = {}
          /\ fence_ = VK_NULL_HANDLE
          /\ last.result = ErrAllocate =>
               /\ ~Called("vkCreateFence")
               /\ liveCommands = {}
               /\ command_ = VK_NULL_HANDLE
          /\ last.result = ErrCreateFence => liveCommands = {command_})
  /\ [][(FirstInitializeFailed /\ last'.op = "Shutdown") =>
          /\ last.result = ErrCreateFence =>
               /\ last'.calls = <<"vkFreeCommandBuffers">>
               /\ released' =
                    Append(released, [kind |-> "command", handle |-> command_])
          /\ last.result = ErrAllocate =>
               /\ last'.calls = <<>>
               /\ released' = released
          /\ liveCommands' = {}
          /\ liveFences' = {}]_vars

C29_Witness ==
  /\ last.op = "Shutdown"
  /\ initCalls = 1
  /\ shutdownCalls = 1
  /\ command_ # VK_NULL_HANDLE
  /\ fence_ = VK_NULL_HANDLE
  /\ last.calls = <<"vkFreeCommandBuffers">>
  /\ released = <<[kind |-> "command", handle |-> command_]>>
  /\ liveCommands = {}
  /\ liveFences = {}

====
